---- MODULE Spec2Model ----
(***************************************************************************)
(* A model of the Pidgin tree-walking evaluator (src/src/interpreter.rs):  *)
(* runtime values, the global table, statement execution with the          *)
(* ControlFlow signal, expression evaluation, method dispatch, user        *)
(* function calls with snapshot/restore of the globals, the module loader, *)
(* and the driver loop that feeds programs to one interpreter.             *)
(*                                                                         *)
(* Conventions.  Text (string values, identifiers, object keys) is a       *)
(* sequence of one-character strings, so that concatenation, formatting    *)
(* and replacement are computed.  Numbers are the integers among the f64   *)
(* values; an operation whose f64 result is not such an integer (a         *)
(* fraction, negative zero) sets the machine flag `oob` and the step that  *)
(* met it is not taken.  A diagnostic is a tuple whose first element is    *)
(* the message text and whose other elements are the formatted arguments.  *)
(***************************************************************************)
EXTENDS Integers, Sequences, FiniteSets, TLC

\* ------------------------------------------------------------------------
\* Bounds of the model
\* ------------------------------------------------------------------------
\* deepest nesting of user function calls that is followed
MaxCallDepth == 3
\* most iterations of one While loop that are followed
MaxLoopIter == 3
\* deepest nesting of module loads that is followed
MaxImportDepth == 2

\* ------------------------------------------------------------------------
\* Runtime values (enum Value)
\* ------------------------------------------------------------------------
NumberV(n) == [t |-> "Number", n |-> n]
StringV(s) == [t |-> "String", s |-> s]
BooleanV(b) == [t |-> "Boolean", b |-> b]
FixedArrayV(a) == [t |-> "FixedArray", a |-> a]
DynamicArrayV(a) == [t |-> "DynamicArray", a |-> a]
ObjectV(o) == [t |-> "Object", o |-> o]
NilV == [t |-> "Nil"]
FunctionV(params, body) == [t |-> "Function", params |-> params, body |-> body]

\* ControlFlow
CfNone == [t |-> "None"]
CfReturn(v) == [t |-> "Return", value |-> v]

\* Result<Value, String> / Result<ControlFlow, String>, together with the
\* interpreter state the evaluation leaves behind
OkV(m, v) == [m |-> m, ok |-> TRUE, val |-> v, err |-> << >>]
ErrV(m, e) == [m |-> m, ok |-> FALSE, val |-> NilV, err |-> e]
OkS(m, cf) == [m |-> m, ok |-> TRUE, cf |-> cf, err |-> << >>]
ErrS(m, e) == [m |-> m, ok |-> FALSE, cf |-> CfNone, err |-> e]

\* The `?` operator: an Err ends the evaluation and is the result, an Ok is
\* handed to the rest of the evaluation.  TryS is `?` on a value inside
\* execute_stmt, whose Err is a Result<ControlFlow, String>.
Try(r, Rest(_)) == IF r.ok THEN Rest(r) ELSE r
TryS(r, Rest(_)) == IF r.ok THEN Rest(r) ELSE ErrS(r.m, r.err)

\* ------------------------------------------------------------------------
\* Text helpers
\* ------------------------------------------------------------------------
\* Vec<String>::join(sep)
RECURSIVE Join(_, _)
Join(ss, sep) ==
    IF ss = << >> THEN << >>
    ELSE IF Len(ss) = 1 THEN ss[1]
    ELSE ss[1] \o sep \o Join(Tail(ss), sep)

Digit(k) == <<"0", "1", "2", "3", "4", "5", "6", "7", "8", "9">>[k + 1]

RECURSIVE NatText(_)
NatText(n) == IF n < 10 THEN <<Digit(n)>> ELSE NatText(n \div 10) \o <<Digit(n % 10)>>

\* f64 Display of an integral value
NumberText(n) == IF n < 0 THEN <<"-">> \o NatText(0 - n) ELSE NatText(n)

BoolText(b) == IF b THEN <<"t", "r", "u", "e">> ELSE <<"f", "a", "l", "s", "e">>

\* impl fmt::Display for Value.  An Object of two or more keys is written in
\* HashMap iteration order, which is not determined: DisplayDefined excludes it.
RECURSIVE DisplayDefined(_)
DisplayDefined(v) ==
    CASE v.t \in {"FixedArray", "DynamicArray"} ->
            \A i \in 1..Len(v.a) : DisplayDefined(v.a[i])
      [] v.t = "Object" ->
            /\ Cardinality(DOMAIN v.o) <= 1
            /\ \A k \in DOMAIN v.o : DisplayDefined(v.o[k])
      [] OTHER -> TRUE

RECURSIVE Display(_)
Display(v) ==
    CASE v.t = "Number" -> NumberText(v.n)
      [] v.t = "String" -> v.s
      [] v.t = "Boolean" -> BoolText(v.b)
      [] v.t = "Nil" -> <<"n", "i", "l">>
      [] v.t = "Function" ->
            <<"f", "u", "n", "c", "t", "i", "o", "n", "(">>
            \o Join(v.params, <<",", " ">>)
            \o <<")", " ", "{", " ", ".", ".", ".", " ", "}">>
      [] v.t = "FixedArray" ->
            <<"[">> \o Join([i \in 1..Len(v.a) |-> Display(v.a[i])], <<",", " ">>) \o <<"]">>
      [] v.t = "DynamicArray" ->
            <<"{">> \o Join([i \in 1..Len(v.a) |-> Display(v.a[i])], <<",", " ">>) \o <<"}">>
      [] v.t = "Object" ->
            <<"{", " ">>
            \o (IF DOMAIN v.o = {} THEN << >>
                ELSE LET k == CHOOSE x \in DOMAIN v.o : TRUE
                     IN  k \o <<":", " ">> \o Display(v.o[k]))
            \o <<" ", "}">>

\* Value::is_truthy
is_truthy(v) ==
    CASE v.t = "Boolean" -> v.b
      [] v.t = "Nil" -> FALSE
      [] OTHER -> TRUE

\* Value::is_equal
RECURSIVE is_equal(_, _)
\* an equality that compares a FixedArray and a DynamicArray by their elements
is_equal_any_array(x, y) ==
    CASE x.t = "Number" /\ y.t = "Number" -> x.n = y.n
      [] x.t = "String" /\ y.t = "String" -> x.s = y.s
      [] x.t = "Boolean" /\ y.t = "Boolean" -> x.b = y.b
      [] x.t = "Nil" /\ y.t = "Nil" -> TRUE
      [] x.t \in {"FixedArray", "DynamicArray"} /\ y.t \in {"FixedArray", "DynamicArray"} ->
            IF Len(x.a) # Len(y.a) THEN FALSE
            ELSE \A i \in 1..Len(x.a) : is_equal(x.a[i], y.a[i])
      [] OTHER -> FALSE

is_equal(x, y) ==
    CASE x.t = "Number" /\ y.t = "Number" -> x.n = y.n
      [] x.t = "String" /\ y.t = "String" -> x.s = y.s
      [] x.t = "Boolean" /\ y.t = "Boolean" -> x.b = y.b
      [] x.t = "Nil" /\ y.t = "Nil" -> TRUE
      [] \/ (x.t = "FixedArray" /\ y.t = "FixedArray")
         \/ (x.t = "DynamicArray" /\ y.t = "DynamicArray") ->
            IF Len(x.a) # Len(y.a) THEN FALSE
            ELSE \A i \in 1..Len(x.a) : is_equal(x.a[i], y.a[i])
      [] OTHER -> FALSE

\* ------------------------------------------------------------------------
\* AST (src/src/ast.rs).  Option<T> is << >> for None and <<x>> for Some(x).
\* ------------------------------------------------------------------------
ExprNumber(n) == [k |-> "Number", n |-> n]
ExprString(s) == [k |-> "String", s |-> s]
ExprBoolean(b) == [k |-> "Boolean", b |-> b]
ExprIdentifier(name) == [k |-> "Identifier", name |-> name]
ExprFixedArray(elements) == [k |-> "FixedArray", elements |-> elements]
ExprDynamicArray(elements) == [k |-> "DynamicArray", elements |-> elements]
ExprIndex(array, index) == [k |-> "Index", array |-> array, index |-> index]
ExprNil == [k |-> "Nil"]
ExprBinary(left, operator, right, line, column) ==
    [k |-> "Binary", left |-> left, operator |-> operator, right |-> right,
     line |-> line, column |-> column]
ExprUnary(operand) == [k |-> "Unary", operator |-> "Minus", operand |-> operand]
ExprAssignment(name, value) == [k |-> "Assignment", name |-> name, value |-> value]
ExprMethodCall(object, method, argument) ==
    [k |-> "MethodCall", object |-> object, method |-> method, argument |-> argument]
ExprTransform(from, to) == [k |-> "Transform", from |-> from, to |-> to]
ExprFunctionCall(name, arguments) ==
    [k |-> "FunctionCall", name |-> name, arguments |-> arguments]

StmtExpression(expr) == [k |-> "Expression", expr |-> expr]
StmtReturn(expr) == [k |-> "Return", expr |-> expr]
StmtPrint(format, arguments) == [k |-> "Print", format |-> format, arguments |-> arguments]
StmtImport(names, module) == [k |-> "Import", names |-> names, module |-> module]
StmtVarDeclaration(name, initializer) ==
    [k |-> "VarDeclaration", name |-> name, initializer |-> initializer]
StmtFunctionDeclaration(name, parameters, body) ==
    [k |-> "FunctionDeclaration", name |-> name, parameters |-> parameters, body |-> body]
StmtBlock(statements) == [k |-> "Block", statements |-> statements]
StmtIf(condition, then_branch, else_branch) ==
    [k |-> "If", condition |-> condition, then_branch |-> then_branch,
     else_branch |-> else_branch]
StmtWhile(condition, body) == [k |-> "While", condition |-> condition, body |-> body]

\* ------------------------------------------------------------------------
\* The interpreter state threaded through an evaluation
\*   globals : Interpreter.globals            out   : what was written to stdout
\*   errout  : what was written to stderr     stdin : the lines still unread
\*   imports : number of module loads in progress (nesting of load_module)
\*   trace   : history of evaluator events (statements started, Return
\*             statements executed, calls left, method calls made)
\*   oob     : the evaluation left the bounds of the model
\* ------------------------------------------------------------------------
Machine(globals, out, errout, stdin) ==
    [globals |-> globals, out |-> out, errout |-> errout, stdin |-> stdin,
     imports |-> 0, trace |-> << >>, oob |-> FALSE]

Log(m, ev) == [m EXCEPT !.trace = Append(@, ev)]
Oob(m) == ErrV([m EXCEPT !.oob = TRUE], <<"outside the bounds of the model">>)
OobS(m) == ErrS([m EXCEPT !.oob = TRUE], <<"outside the bounds of the model">>)

\* globals.insert(name, value)
Insert(g, name, value) == [x \in (DOMAIN g) \cup {name} |-> IF x = name THEN value ELSE g[x]]

\* println!("{text}")
Println(m, text) == [m EXCEPT !.out = Append(@, text \o <<"\n">>)]
\* eprintln!("{text}")
Eprintln(m, text) == [m EXCEPT !.errout = Append(@, text \o <<"\n">>)]

\* `n as usize` for an f64: the cast saturates, a negative number becomes 0
AsUsize(n) == IF n < 0 THEN 0 ELSE n

\* ------------------------------------------------------------------------
\* String methods
\* ------------------------------------------------------------------------
LowerLetters == <<"a", "b", "c", "d", "e", "f", "g", "h", "i", "j", "k", "l", "m",
                  "n", "o", "p", "q", "r", "s", "t", "u", "v", "w", "x", "y", "z">>
UpperLetters == <<"A", "B", "C", "D", "E", "F", "G", "H", "I", "J", "K", "L", "M",
                  "N", "O", "P", "Q", "R", "S", "T", "U", "V", "W", "X", "Y", "Z">>
IndexIn(c, letters) ==
    IF \E i \in 1..Len(letters) : letters[i] = c
    THEN CHOOSE i \in 1..Len(letters) : letters[i] = c
    ELSE 0
\* char::is_uppercase, for the ASCII letters
IsUpperChar(c) == IndexIn(c, UpperLetters) # 0
\* str::to_uppercase / str::to_lowercase, for ASCII text
ToUpperText(s) ==
    [i \in 1..Len(s) |-> IF IndexIn(s[i], LowerLetters) # 0
                         THEN UpperLetters[IndexIn(s[i], LowerLetters)] ELSE s[i]]
ToLowerText(s) ==
    [i \in 1..Len(s) |-> IF IndexIn(s[i], UpperLetters) # 0
                         THEN LowerLetters[IndexIn(s[i], UpperLetters)] ELSE s[i]]
WhiteSpace == {" ", "\t", "\n", "\r"}
\* str::trim
RECURSIVE TrimStart(_)
TrimStart(s) == IF s # << >> /\ Head(s) \in WhiteSpace THEN TrimStart(Tail(s)) ELSE s
RECURSIVE TrimEnd(_)
TrimEnd(s) ==
    IF s # << >> /\ s[Len(s)] \in WhiteSpace THEN TrimEnd(SubSeq(s, 1, Len(s) - 1)) ELSE s
TrimText(s) == TrimEnd(TrimStart(s))

IsPrefix(p, s) == Len(p) <= Len(s) /\ SubSeq(s, 1, Len(p)) = p
\* str::replace(from, to): every non-overlapping match, left to right; an
\* empty pattern matches before every character and at the end
RECURSIVE ReplaceText(_, _, _)
ReplaceText(s, from, to) ==
    IF from = << >>
    THEN IF s = << >> THEN to ELSE to \o <<Head(s)>> \o ReplaceText(Tail(s), from, to)
    ELSE IF s = << >> THEN << >>
    ELSE IF IsPrefix(from, s)
         THEN to \o ReplaceText(SubSeq(s, Len(from) + 1, Len(s)), from, to)
         ELSE <<Head(s)>> \o ReplaceText(Tail(s), from, to)

\* The placeholder substitution of Stmt::Print: format_str.split("{}"), then
\* the parts joined by the next argument, or by "{}" once the arguments ran out
RECURSIVE FormatText(_, _)
\* a substitution that scans the text of an inserted argument again
FormatTextRescans(format_str, arg_values) ==
    IF format_str = << >> THEN << >>
    ELSE IF IsPrefix(<<"{", "}">>, format_str)
         THEN IF arg_values # << >>
              THEN FormatText(Head(arg_values) \o SubSeq(format_str, 3, Len(format_str)),
                              Tail(arg_values))
              ELSE <<"{", "}">>
                   \o FormatText(SubSeq(format_str, 3, Len(format_str)), arg_values)
         ELSE <<Head(format_str)>> \o FormatText(Tail(format_str), arg_values)

FormatText(format_str, arg_values) ==
    IF format_str = << >> THEN << >>
    ELSE IF IsPrefix(<<"{", "}">>, format_str)
         THEN IF arg_values # << >>
              THEN Head(arg_values)
                   \o FormatText(SubSeq(format_str, 3, Len(format_str)), Tail(arg_values))
              ELSE <<"{", "}">>
                   \o FormatText(SubSeq(format_str, 3, Len(format_str)), arg_values)
         ELSE <<Head(format_str)>> \o FormatText(Tail(format_str), arg_values)

\* ------------------------------------------------------------------------
\* Names the evaluator treats specially
\* ------------------------------------------------------------------------
NameReadline == <<"r", "e", "a", "d", "l", "i", "n", "e">>
NamePrintErr == <<"p", "r", "i", "n", "t", "E", "r", "r">>
NameDate == <<"D", "a", "t", "e">>
NameObject == <<"O", "b", "j", "e", "c", "t">>
DotPg == <<".", "p", "g">>
ExamplesDir == <<"e", "x", "a", "m", "p", "l", "e", "s", "/">>
Prompt == <<"E", "n", "t", "e", "r", " ", "i", "n", "p", "u", "t", ":", " ">>

RECURSIVE EvalExpr(_, _, _)
RECURSIVE ExecStmt(_, _, _)
RECURSIVE EvalElements(_, _, _)
RECURSIVE ExecBlock(_, _, _)
RECURSIVE WhileLoop(_, _, _, _)
RECURSIVE BindArgs(_, _, _, _)
RECURSIVE CallFunction(_, _, _, _)
RECURSIVE RunModule(_, _)
RECURSIVE load_module(_, _, _)

\* ------------------------------------------------------------------------
\* Expr::Binary, once both operands are evaluated
\* ------------------------------------------------------------------------
\* an addition that also stringifies a Boolean beside a Number
AddOpLoose(m, l, r, line, column) ==
    CASE l.t = "Number" /\ r.t = "Number" -> OkV(m, NumberV(l.n + r.n))
      [] l.t = "String" /\ r.t = "String" -> OkV(m, StringV(l.s \o r.s))
      [] l.t = "String" /\ r.t = "Number" -> OkV(m, StringV(l.s \o NumberText(r.n)))
      [] l.t = "Number" /\ r.t = "String" -> OkV(m, StringV(NumberText(l.n) \o r.s))
      [] l.t = "String" /\ r.t = "Boolean" -> OkV(m, StringV(l.s \o BoolText(r.b)))
      [] l.t = "Boolean" /\ r.t = "String" -> OkV(m, StringV(BoolText(l.b) \o r.s))
      [] l.t = "Number" /\ r.t = "Boolean" ->
            OkV(m, StringV(NumberText(l.n) \o BoolText(r.b)))
      [] OTHER -> ErrV(m, <<"Invalid operands for addition", l, r, line, column>>)

AddOp(m, l, r, line, column) ==
    CASE l.t = "Number" /\ r.t = "Number" -> OkV(m, NumberV(l.n + r.n))
      [] l.t = "String" /\ r.t = "String" -> OkV(m, StringV(l.s \o r.s))
      [] l.t = "String" /\ r.t = "Number" -> OkV(m, StringV(l.s \o NumberText(r.n)))
      [] l.t = "Number" /\ r.t = "String" -> OkV(m, StringV(NumberText(l.n) \o r.s))
      [] l.t = "String" /\ r.t = "Boolean" -> OkV(m, StringV(l.s \o BoolText(r.b)))
      [] l.t = "Boolean" /\ r.t = "String" -> OkV(m, StringV(BoolText(l.b) \o r.s))
      [] OTHER -> ErrV(m, <<"Invalid operands for addition", l, r, line, column>>)

DivideOp(m, l, r, line, column) ==
    IF l.t = "Number" /\ r.t = "Number"
    THEN IF r.n = 0 THEN ErrV(m, <<"Division by zero">>)
         ELSE IF l.n % r.n # 0 \/ (l.n = 0 /\ r.n < 0) THEN Oob(m)
         ELSE OkV(m, NumberV(l.n \div r.n))
    ELSE ErrV(m, <<"Invalid operands for division", l, r, line, column>>)

BinaryOp(m, operator, l, r, line, column) ==
    CASE operator = "Add" -> AddOp(m, l, r, line, column)
      [] operator = "Subtract" ->
            IF l.t = "Number" /\ r.t = "Number" THEN OkV(m, NumberV(l.n - r.n))
            ELSE ErrV(m, <<"Invalid operands for subtraction", l, r, line, column>>)
      [] operator = "Multiply" ->
            IF l.t = "Number" /\ r.t = "Number"
            THEN IF l.n * r.n = 0 /\ (l.n < 0 \/ r.n < 0) THEN Oob(m)
                 ELSE OkV(m, NumberV(l.n * r.n))
            ELSE ErrV(m, <<"Invalid operands for multiplication", l, r, line, column>>)
      [] operator = "Divide" -> DivideOp(m, l, r, line, column)
      [] operator = "Equal" -> OkV(m, BooleanV(is_equal(l, r)))
      [] operator = "NotEqual" -> OkV(m, BooleanV(~is_equal(l, r)))
      [] operator = "Greater" ->
            IF l.t = "Number" /\ r.t = "Number" THEN OkV(m, BooleanV(l.n > r.n))
            ELSE ErrV(m, <<"Invalid operands for comparison >", l, r, line, column>>)
      [] operator = "GreaterEqual" ->
            IF l.t = "Number" /\ r.t = "Number" THEN OkV(m, BooleanV(l.n >= r.n))
            ELSE ErrV(m, <<"Invalid operands for comparison >=", l, r, line, column>>)
      [] operator = "Less" ->
            IF l.t = "Number" /\ r.t = "Number" THEN OkV(m, BooleanV(l.n < r.n))
            ELSE ErrV(m, <<"Invalid operands for comparison <", l, r, line, column>>)
      [] operator = "LessEqual" ->
            IF l.t = "Number" /\ r.t = "Number" THEN OkV(m, BooleanV(l.n <= r.n))
            ELSE ErrV(m, <<"Invalid operands for comparison <=", l, r, line, column>>)

\* an indexing that treats an index equal to the length as in bounds, and
\* yields Nil there
IndexOpInclusive(m, array_val, index_val) ==
    IF index_val.t # "Number" THEN ErrV(m, <<"Array index must be a number">>)
    ELSE IF array_val.t \in {"FixedArray", "DynamicArray"}
         THEN IF AsUsize(index_val.n) > Len(array_val.a)
              THEN ErrV(m, <<"Array index out of bounds", AsUsize(index_val.n),
                             Len(array_val.a)>>)
              ELSE IF AsUsize(index_val.n) = Len(array_val.a) THEN OkV(m, NilV)
              ELSE OkV(m, array_val.a[AsUsize(index_val.n) + 1])
         ELSE ErrV(m, <<"Can only index arrays">>)

\* Expr::Index, once array and index are evaluated
IndexOp(m, array_val, index_val) ==
    IF index_val.t # "Number" THEN ErrV(m, <<"Array index must be a number">>)
    ELSE IF array_val.t \in {"FixedArray", "DynamicArray"}
         THEN IF AsUsize(index_val.n) >= Len(array_val.a)
              THEN ErrV(m, <<"Array index out of bounds", AsUsize(index_val.n),
                             Len(array_val.a)>>)
              ELSE OkV(m, array_val.a[AsUsize(index_val.n) + 1])
         ELSE ErrV(m, <<"Can only index arrays">>)

\* ------------------------------------------------------------------------
\* Expr::MethodCall: one operator per arm of `match method.as_str()`.
\* object_val is the evaluated receiver, argument the unevaluated AST node.
\* ------------------------------------------------------------------------
ZeroArg(argument) == argument.k = "Nil"

\* a replaceChar side that is always used as literal text
TransformSideLiteral(m, text) == [ok |-> TRUE, s |-> text]

\* a replaceChar side: the value of the global of that name, else the text
TransformSide(m, text) ==
    IF text \in DOMAIN m.globals
    THEN LET val == m.globals[text]
         IN  CASE val.t = "String" -> [ok |-> TRUE, s |-> val.s]
               [] val.t = "Number" -> [ok |-> TRUE, s |-> NumberText(val.n)]
               [] val.t = "Boolean" -> [ok |-> TRUE, s |-> BoolText(val.b)]
               [] OTHER -> [ok |-> FALSE, s |-> << >>]
    ELSE [ok |-> TRUE, s |-> text]

MethodReplaceChar(m, object_val, argument, d) ==
    IF object_val.t = "String"
    THEN IF argument.k = "Transform"
         THEN LET from_value == TransformSide(m, argument.from)
                  to_value == TransformSide(m, argument.to)
              IN  IF ~from_value.ok
                  THEN ErrV(m, <<"Variable is not a valid replacement value", argument.from>>)
                  ELSE IF ~to_value.ok
                  THEN ErrV(m, <<"Variable is not a valid replacement value", argument.to>>)
                  ELSE OkV(m, StringV(ReplaceText(object_val.s, from_value.s, to_value.s)))
         ELSE ErrV(m, <<"ReplaceChar method requires a transform argument">>)
    ELSE ErrV(m, <<"ReplaceChar method can only be called on strings">>)

MethodPush(m, object_val, argument, d) ==
    Try(EvalExpr(m, argument, d), LAMBDA arg_val :
        IF object_val.t = "DynamicArray"
        THEN OkV(arg_val.m, DynamicArrayV(Append(object_val.a, arg_val.val)))
        ELSE ErrV(arg_val.m, <<"Push method can only be called on dynamic arrays">>))

\* a pop that takes the first element instead of the last
MethodPopFirst(m, object_val, argument, d) ==
    IF ZeroArg(argument)
    THEN IF object_val.t = "DynamicArray"
         THEN IF object_val.a = << >>
              THEN ErrV(m, <<"Cannot pop from empty array">>)
              ELSE OkV(m, object_val.a[1])
         ELSE ErrV(m, <<"Pop method can only be called on dynamic arrays">>)
    ELSE ErrV(m, <<"Pop method does not take arguments">>)

\* a pop that returns the shortened array and accepts an empty one
MethodPopArray(m, object_val, argument, d) ==
    IF ZeroArg(argument)
    THEN IF object_val.t = "DynamicArray"
         THEN OkV(m, DynamicArrayV(SubSeq(object_val.a, 1, Len(object_val.a) - 1)))
         ELSE ErrV(m, <<"Pop method can only be called on dynamic arrays">>)
    ELSE ErrV(m, <<"Pop method does not take arguments">>)

MethodPop(m, object_val, argument, d) ==
    IF ZeroArg(argument)
    THEN IF object_val.t = "DynamicArray"
         THEN IF object_val.a = << >>
              THEN ErrV(m, <<"Cannot pop from empty array">>)
              ELSE OkV(m, object_val.a[Len(object_val.a)])
         ELSE ErrV(m, <<"Pop method can only be called on dynamic arrays">>)
    ELSE ErrV(m, <<"Pop method does not take arguments">>)

MethodLength(m, object_val, argument, d) ==
    IF ZeroArg(argument)
    THEN IF object_val.t \in {"FixedArray", "DynamicArray"}
         THEN OkV(m, NumberV(Len(object_val.a)))
         ELSE ErrV(m, <<"Length method can only be called on arrays">>)
    ELSE ErrV(m, <<"Length method does not take arguments">>)

\* a clear that accepts both array flavors
MethodClearAnyArray(m, object_val, argument, d) ==
    IF ZeroArg(argument)
    THEN IF object_val.t \in {"DynamicArray", "FixedArray"}
         THEN OkV(m, DynamicArrayV(<< >>))
         ELSE ErrV(m, <<"Clear method can only be called on dynamic arrays">>)
    ELSE ErrV(m, <<"Clear method does not take arguments">>)

MethodClear(m, object_val, argument, d) ==
    IF ZeroArg(argument)
    THEN IF object_val.t = "DynamicArray"
         THEN OkV(m, DynamicArrayV(<< >>))
         ELSE ErrV(m, <<"Clear method can only be called on dynamic arrays">>)
    ELSE ErrV(m, <<"Clear method does not take arguments">>)

\* format, getYear, getMonth, getDay: Date values are outside the model (the
\* Date built-in is), so the receiver is never a Date here
MethodFormat(m, object_val, argument, d) ==
    ErrV(m, <<"format method can only be called on Date objects">>)

MethodDatePart(m, object_val, method, argument, d) ==
    IF ZeroArg(argument)
    THEN ErrV(m, <<"method can only be called on Date objects", method>>)
    ELSE ErrV(m, <<"method does not take arguments", method>>)

\* keys(): the order of the keys is the HashMap's, not determined for two or
\* more keys
MethodKeys(m, object_val, argument, d) ==
    IF ZeroArg(argument)
    THEN IF object_val.t = "Object"
         THEN IF Cardinality(DOMAIN object_val.o) > 1 THEN Oob(m)
              ELSE OkV(m, DynamicArrayV(IF DOMAIN object_val.o = {} THEN << >>
                        ELSE <<StringV(CHOOSE x \in DOMAIN object_val.o : TRUE)>>))
         ELSE ErrV(m, <<"keys method can only be called on Object">>)
    ELSE ErrV(m, <<"keys method does not take arguments">>)

\* Vec::insert(index, value), index <= len
InsertAt(a, index, value) ==
    SubSeq(a, 1, index) \o <<value>> \o SubSeq(a, index + 1, Len(a))

MethodInsert(m, object_val, argument, d) ==
    IF object_val.t = "DynamicArray"
    THEN IF argument.k = "Binary"
         THEN IF argument.left.k = "Number"
              THEN IF AsUsize(argument.left.n) > Len(object_val.a)
                   THEN ErrV(m, <<"Insert index out of bounds", AsUsize(argument.left.n),
                                  Len(object_val.a)>>)
                   ELSE Try(EvalExpr(m, argument.right, d), LAMBDA value :
                            OkV(value.m, DynamicArrayV(InsertAt(object_val.a,
                                            AsUsize(argument.left.n), value.val))))
              ELSE ErrV(m, <<"insert() requires (index, value) arguments">>)
         ELSE ErrV(m, <<"insert() requires exactly two arguments">>)
    ELSE ErrV(m, <<"insert method can only be called on dynamic arrays">>)

MethodRemove(m, object_val, argument, d) ==
    IF object_val.t = "DynamicArray"
    THEN IF argument.k = "Number"
         THEN LET index == AsUsize(argument.n)
              IN  IF index >= Len(object_val.a)
                  THEN ErrV(m, <<"Remove index out of bounds", index, Len(object_val.a)>>)
                  ELSE OkV(m, object_val.a[index + 1])
         ELSE ErrV(m, <<"remove() requires a numeric index argument">>)
    ELSE ErrV(m, <<"remove method can only be called on dynamic arrays">>)

\* Vec::reverse
Reversed(a) == [i \in 1..Len(a) |-> a[Len(a) + 1 - i]]

MethodReverse(m, object_val, argument, d) ==
    IF ZeroArg(argument)
    THEN CASE object_val.t = "DynamicArray" -> OkV(m, DynamicArrayV(Reversed(object_val.a)))
           [] object_val.t = "FixedArray" -> OkV(m, FixedArrayV(Reversed(object_val.a)))
           [] OTHER -> ErrV(m, <<"reverse method can only be called on arrays">>)
    ELSE ErrV(m, <<"reverse method does not take arguments">>)

\* toUpper, toLower, trim
MethodStringCase(m, object_val, method, argument, d) ==
    IF ZeroArg(argument)
    THEN IF object_val.t = "String"
         THEN OkV(m, StringV(CASE method = "toUpper" -> ToUpperText(object_val.s)
                               [] method = "toLower" -> ToLowerText(object_val.s)
                               [] method = "trim" -> TrimText(object_val.s)))
         ELSE ErrV(m, <<"method can only be called on strings", method>>)
    ELSE ErrV(m, <<"method does not take arguments", method>>)

\* a set that returns an object holding the new key only
MethodSetFresh(m, object_val, argument, d) ==
    IF object_val.t = "Object"
    THEN IF argument.k = "Binary"
         THEN Try(EvalExpr(m, argument.left, d), LAMBDA key_val :
                  IF key_val.val.t # "String"
                  THEN ErrV(key_val.m,
                            <<"set() requires (key, value) arguments where key is a string">>)
                  ELSE Try(EvalExpr(key_val.m, argument.right, d), LAMBDA value :
                           OkV(value.m,
                               ObjectV(Insert(<< >>, key_val.val.s, value.val)))))
         ELSE ErrV(m, <<"set() requires exactly two arguments">>)
    ELSE ErrV(m, <<"set method can only be called on objects">>)

MethodSet(m, object_val, argument, d) ==
    IF object_val.t = "Object"
    THEN IF argument.k = "Binary"
         THEN Try(EvalExpr(m, argument.left, d), LAMBDA key_val :
                  IF key_val.val.t # "String"
                  THEN ErrV(key_val.m,
                            <<"set() requires (key, value) arguments where key is a string">>)
                  ELSE Try(EvalExpr(key_val.m, argument.right, d), LAMBDA value :
                           OkV(value.m,
                               ObjectV(Insert(object_val.o, key_val.val.s, value.val)))))
         ELSE ErrV(m, <<"set() requires exactly two arguments">>)
    ELSE ErrV(m, <<"set method can only be called on objects">>)

MethodGet(m, object_val, argument, d) ==
    IF object_val.t = "Object"
    THEN Try(EvalExpr(m, argument, d), LAMBDA key_val :
             IF key_val.val.t # "String"
             THEN ErrV(key_val.m, <<"get() requires a string key argument">>)
             ELSE IF key_val.val.s \in DOMAIN object_val.o
                  THEN OkV(key_val.m, object_val.o[key_val.val.s])
                  ELSE OkV(key_val.m, NilV))
    ELSE ErrV(m, <<"get method can only be called on objects">>)

MethodHas(m, object_val, argument, d) ==
    IF object_val.t = "Object"
    THEN Try(EvalExpr(m, argument, d), LAMBDA key_val :
             IF key_val.val.t # "String"
             THEN ErrV(key_val.m, <<"has() requires a string key argument">>)
             ELSE OkV(key_val.m, BooleanV(key_val.val.s \in DOMAIN object_val.o)))
    ELSE ErrV(m, <<"has method can only be called on objects">>)

\* match method.as_str() { ... }
Dispatch(m, object_val, method, argument, d) ==
    CASE method = "replaceChar" -> MethodReplaceChar(m, object_val, argument, d)
      [] method = "push" -> MethodPush(m, object_val, argument, d)
      [] method = "pop" -> MethodPop(m, object_val, argument, d)
      [] method = "length" -> MethodLength(m, object_val, argument, d)
      [] method = "clear" -> MethodClear(m, object_val, argument, d)
      [] method = "format" -> MethodFormat(m, object_val, argument, d)
      [] method \in {"getYear", "getMonth", "getDay"} ->
            MethodDatePart(m, object_val, method, argument, d)
      [] method = "keys" -> MethodKeys(m, object_val, argument, d)
      [] method = "insert" -> MethodInsert(m, object_val, argument, d)
      [] method = "remove" -> MethodRemove(m, object_val, argument, d)
      [] method = "reverse" -> MethodReverse(m, object_val, argument, d)
      [] method \in {"toUpper", "toLower", "trim"} ->
            MethodStringCase(m, object_val, method, argument, d)
      [] method = "set" -> MethodSet(m, object_val, argument, d)
      [] method = "get" -> MethodGet(m, object_val, argument, d)
      [] method = "has" -> MethodHas(m, object_val, argument, d)
      [] OTHER -> ErrV(m, <<"Unsupported method", method>>)

\* the result of a method call, with the call entered in the trace: the
\* globals before the receiver was evaluated and after the method finished
Recorded(m, e, d, object_val, r) ==
    [r EXCEPT !.m = Log(r.m, [ev |-> "method", method |-> e.method,
                              object |-> e.object, argument |-> e.argument,
                              recv |-> object_val.val,
                              pre |-> m.globals, post |-> r.m.globals,
                              ok |-> r.ok, val |-> r.val, err |-> r.err,
                              depth |-> d, mod |-> m.imports])]

StoredBack(e, r) ==
    IF r.ok /\ e.object.k = "Identifier"
       /\ e.method \in {"push", "clear", "insert", "reverse", "set"}
    THEN [r EXCEPT !.m.globals = Insert(@, e.object.name, r.val)]
    ELSE r

\* a method call that stores a successful result of push, clear, insert,
\* reverse or set back into the variable it was called on
EvalMethodCallInPlace(m, e, d) ==
    Try(EvalExpr(m, e.object, d), LAMBDA object_val :
        Recorded(m, e, d, object_val,
                 StoredBack(e, Dispatch(object_val.m, object_val.val, e.method,
                                        e.argument, d))))

\* Expr::MethodCall: the receiver is evaluated once, then the method is
\* dispatched
EvalMethodCall(m, e, d) ==
    Try(EvalExpr(m, e.object, d), LAMBDA object_val :
        Recorded(m, e, d, object_val,
                 Dispatch(object_val.m, object_val.val, e.method, e.argument, d)))

\* ------------------------------------------------------------------------
\* Built-in functions
\* ------------------------------------------------------------------------
\* the line read_line returns, without its trailing "\n" and then "\r"
StripNewline(input) ==
    IF input # << >> /\ input[Len(input)] = "\n"
    THEN LET a == SubSeq(input, 1, Len(input) - 1)
         IN  IF a # << >> /\ a[Len(a)] = "\r" THEN SubSeq(a, 1, Len(a) - 1) ELSE a
    ELSE input

builtin_readline(m, arguments, d) ==
    IF arguments # << >> THEN ErrV(m, <<"readline() takes no arguments">>)
    ELSE LET m1 == [m EXCEPT !.out = Append(@, Prompt)]
         IN  IF m1.stdin = << >> THEN OkV(m1, StringV(<< >>))
             ELSE OkV([m1 EXCEPT !.stdin = Tail(@)], StringV(StripNewline(Head(m1.stdin))))

builtin_print_err(m, arguments, d) ==
    IF Len(arguments) # 1 THEN ErrV(m, <<"printErr() takes exactly one argument">>)
    ELSE Try(EvalExpr(m, arguments[1], d), LAMBDA value :
             IF ~DisplayDefined(value.val) THEN Oob(value.m)
             ELSE OkV(Eprintln(value.m, Display(value.val)), NilV))

\* Date values depend on the clock and the time zone: outside the model
builtin_date(m, arguments, d) ==
    IF Len(arguments) \in {0, 1, 3} THEN Oob(m)
    ELSE ErrV(m, <<"Date() takes 0, 1, or 3 arguments">>)

builtin_object(m, arguments, d) == OkV(m, ObjectV(<< >>))

\* ------------------------------------------------------------------------
\* Interpreter::evaluate_expr
\* ------------------------------------------------------------------------
EvalElements(m, elements, d) ==
    IF elements = << >> THEN OkV(m, << >>)
    ELSE Try(EvalExpr(m, Head(elements), d), LAMBDA first :
             Try(EvalElements(first.m, Tail(elements), d), LAMBDA rest :
                 OkV(rest.m, <<first.val>> \o rest.val)))

\* the result of a binary operation, entered in the trace with its operands
Operated(e, left_val, right_val, r) ==
    [r EXCEPT !.m = Log(r.m, [ev |-> "binary", operator |-> e.operator,
                              left |-> left_val, right |-> right_val,
                              line |-> e.line, column |-> e.column,
                              ok |-> r.ok, val |-> r.val, err |-> r.err])]

EvalBinary(m, e, d) ==
    Try(EvalExpr(m, e.left, d), LAMBDA left_val :
        Try(EvalExpr(left_val.m, e.right, d), LAMBDA right_val :
            Operated(e, left_val.val, right_val.val,
                     BinaryOp(right_val.m, e.operator, left_val.val, right_val.val,
                              e.line, e.column))))

\* the result of an indexing, entered in the trace with its operands
Indexed(array_val, index_val, r) ==
    [r EXCEPT !.m = Log(r.m, [ev |-> "index", array |-> array_val, index |-> index_val,
                              ok |-> r.ok, val |-> r.val, err |-> r.err])]

EvalIndex(m, e, d) ==
    Try(EvalExpr(m, e.array, d), LAMBDA array_val :
        Try(EvalExpr(array_val.m, e.index, d), LAMBDA index_val :
            Indexed(array_val.val, index_val.val,
                    IndexOp(index_val.m, array_val.val, index_val.val))))

EvalUnary(m, e, d) ==
    Try(EvalExpr(m, e.operand, d), LAMBDA operand_val :
        IF operand_val.val.t = "Number"
        THEN IF operand_val.val.n = 0 THEN Oob(operand_val.m)
             ELSE OkV(operand_val.m, NumberV(0 - operand_val.val.n))
        ELSE ErrV(operand_val.m, <<"Invalid operand for unary minus">>))

EvalAssignment(m, e, d) ==
    Try(EvalExpr(m, e.value, d), LAMBDA val :
        OkV([val.m EXCEPT !.globals = Insert(@, e.name, val.val)], val.val))

EvalExpr(m, e, d) ==
    CASE e.k = "Number" -> OkV(m, NumberV(e.n))
      [] e.k = "String" -> OkV(m, StringV(e.s))
      [] e.k = "Boolean" -> OkV(m, BooleanV(e.b))
      [] e.k = "Identifier" ->
            IF e.name \in DOMAIN m.globals THEN OkV(m, m.globals[e.name])
            ELSE ErrV(m, <<"Undefined variable", e.name>>)
      [] e.k \in {"FixedArray", "DynamicArray"} ->
            Try(EvalElements(m, e.elements, d), LAMBDA vals :
                OkV(vals.m, IF e.k = "FixedArray" THEN FixedArrayV(vals.val)
                            ELSE DynamicArrayV(vals.val)))
      [] e.k = "Index" -> EvalIndex(m, e, d)
      [] e.k = "Binary" -> EvalBinary(m, e, d)
      [] e.k = "Unary" -> EvalUnary(m, e, d)
      [] e.k = "Assignment" -> EvalAssignment(m, e, d)
      [] e.k = "MethodCall" -> EvalMethodCall(m, e, d)
      [] e.k = "Transform" -> ErrV(m, <<"Transform should not be evaluated directly">>)
      [] e.k = "FunctionCall" -> CallFunction(m, e.name, e.arguments, d)
      [] e.k = "Nil" -> OkV(m, NilV)

\* ------------------------------------------------------------------------
\* Interpreter::call_function
\* ------------------------------------------------------------------------
\* for (param, arg) in params.iter().zip(arguments.iter()): evaluate the
\* argument in the current globals, then bind the parameter.  val collects
\* the values bound.  An argument that fails ends the loop with the globals
\* as they are at that point.
BindArgs(m, params, arguments, d) ==
    IF params = << >> \/ arguments = << >> THEN OkV(m, << >>)
    ELSE Try(EvalExpr(m, Head(arguments), d), LAMBDA arg_value :
             Try(BindArgs([arg_value.m EXCEPT
                              !.globals = Insert(@, Head(params), arg_value.val)],
                          Tail(params), Tail(arguments), d),
                 LAMBDA rest : OkV(rest.m, <<arg_value.val>> \o rest.val)))

\* the record of a call frame that was left, for the trace; m is the
\* interpreter at the call, whose globals are the snapshot saved_globals
ExitEvent(name, arguments, d, m, post, how, val, bound) ==
    [ev |-> "exit", depth |-> d + 1, mod |-> m.imports, name |-> name,
     arguments |-> arguments, pre |-> m.globals, post |-> post,
     how |-> how, val |-> val, bound |-> bound]

\* an argument failed: the error is propagated
ArgumentFailed(m, name, arguments, d, bound) ==
    ErrV(Log(bound.m, ExitEvent(name, arguments, d, m, bound.m.globals, "ArgErr",
                                NilV, << >>)),
         bound.err)

\* the body was executed: restore the globals saved in m, then handle the
\* result of the body
Restore(m, name, arguments, d, bound, result) ==
    IF ~result.ok
    THEN ErrV(Log([result.m EXCEPT !.globals = m.globals],
                  ExitEvent(name, arguments, d, m, m.globals, "BodyErr", NilV, bound.val)),
              result.err)
    ELSE OkV(Log([result.m EXCEPT !.globals = m.globals],
                 ExitEvent(name, arguments, d, m, m.globals, result.cf.t,
                           IF result.cf.t = "Return" THEN result.cf.value ELSE NilV,
                           bound.val)),
             IF result.cf.t = "Return" THEN result.cf.value ELSE NilV)

\* the parameters are bound: execute the body
Execute(m, name, arguments, d, bound) ==
    IF ~bound.ok THEN ArgumentFailed(m, name, arguments, d, bound)
    ELSE IF d + 1 > MaxCallDepth THEN Oob(bound.m)
    ELSE Restore(m, name, arguments, d, bound,
                 ExecStmt(bound.m, m.globals[name].body, d + 1))

\* the result of a body, with the globals left as the body made them
NoRestore(m, name, arguments, d, bound, result) ==
    IF ~result.ok
    THEN ErrV(Log([result.m EXCEPT !.globals = m.globals],
                  ExitEvent(name, arguments, d, m, m.globals, "BodyErr", NilV, bound.val)),
              result.err)
    ELSE OkV(Log(result.m,
                 ExitEvent(name, arguments, d, m, result.m.globals, result.cf.t,
                           IF result.cf.t = "Return" THEN result.cf.value ELSE NilV,
                           bound.val)),
             IF result.cf.t = "Return" THEN result.cf.value ELSE NilV)

ExecuteNoRestore(m, name, arguments, d, bound) ==
    IF ~bound.ok THEN ArgumentFailed(m, name, arguments, d, bound)
    ELSE IF d + 1 > MaxCallDepth THEN Oob(bound.m)
    ELSE NoRestore(m, name, arguments, d, bound,
                   ExecStmt(bound.m, m.globals[name].body, d + 1))

\* a call that restores the globals only when the body failed
UserCallKeepsGlobals(m, name, arguments, d) ==
    IF ~(name \in DOMAIN m.globals /\ m.globals[name].t = "Function")
    THEN ErrV(m, <<"Undefined function", name>>)
    ELSE IF Len(arguments) # Len(m.globals[name].params)
    THEN ErrV(m, <<"Function expects arguments, got", name,
                   Len(m.globals[name].params), Len(arguments)>>)
    ELSE ExecuteNoRestore(m, name, arguments, d,
                          BindArgs(m, m.globals[name].params, arguments, d))

UserCall(m, name, arguments, d) ==
    IF ~(name \in DOMAIN m.globals /\ m.globals[name].t = "Function")
    THEN ErrV(m, <<"Undefined function", name>>)
    ELSE IF Len(arguments) # Len(m.globals[name].params)
    THEN ErrV(m, <<"Function expects arguments, got", name,
                   Len(m.globals[name].params), Len(arguments)>>)
    ELSE Execute(m, name, arguments, d,
                 BindArgs(m, m.globals[name].params, arguments, d))

CallFunction(m, name, arguments, d) ==
    CASE name = NameReadline -> builtin_readline(m, arguments, d)
      [] name = NamePrintErr -> builtin_print_err(m, arguments, d)
      [] name = NameDate -> builtin_date(m, arguments, d)
      [] name = NameObject -> builtin_object(m, arguments, d)
      [] OTHER -> UserCall(m, name, arguments, d)

\* ------------------------------------------------------------------------
\* Interpreter::execute_stmt
\* ------------------------------------------------------------------------
\* Display of every argument value, in order
DisplayAll(vals) == [i \in 1..Len(vals) |-> Display(vals[i])]

ExecPrint(m, s, d) ==
    TryS(EvalExpr(m, s.format, d), LAMBDA format_value :
         IF s.arguments = << >>
         THEN IF ~DisplayDefined(format_value.val) THEN OobS(format_value.m)
              ELSE OkS(Println(format_value.m, Display(format_value.val)), CfNone)
         ELSE IF format_value.val.t # "String"
         THEN ErrS(format_value.m, <<"Format string must be a string">>)
         ELSE TryS(EvalElements(format_value.m, s.arguments, d), LAMBDA arg_values :
                   IF \E i \in 1..Len(arg_values.val) : ~DisplayDefined(arg_values.val[i])
                   THEN OobS(arg_values.m)
                   ELSE OkS(Println(arg_values.m,
                                    FormatText(format_value.val.s,
                                               DisplayAll(arg_values.val))),
                            CfNone)))

\* a block with a scope of its own: the globals at its end are those at its
\* start
ExecBlockScoped(m, statements, d) ==
    IF statements = << >> THEN OkS(m, CfNone)
    ELSE Try(ExecStmt(m, Head(statements), d), LAMBDA r :
             IF r.cf.t = "Return" THEN r
             ELSE Try(ExecBlock(r.m, Tail(statements), d), LAMBDA rest :
                      [rest EXCEPT !.m.globals = m.globals]))

\* a block that runs all its children and passes on the last Return it met
ExecBlockRunsOn(m, statements, d) ==
    IF statements = << >> THEN OkS(m, CfNone)
    ELSE Try(ExecStmt(m, Head(statements), d), LAMBDA r :
             Try(ExecBlock(r.m, Tail(statements), d), LAMBDA rest :
                 IF rest.cf.t = "None" /\ r.cf.t = "Return" THEN OkS(rest.m, r.cf)
                 ELSE rest))

\* Stmt::Block: the children in order, a Return ends the block
ExecBlock(m, statements, d) ==
    IF statements = << >> THEN OkS(m, CfNone)
    ELSE Try(ExecStmt(m, Head(statements), d), LAMBDA r :
             IF r.cf.t = "Return" THEN r
             ELSE ExecBlock(r.m, Tail(statements), d))

\* Stmt::While; n counts the iterations made so far
WhileLoop(m, s, d, n) ==
    TryS(EvalExpr(m, s.condition, d), LAMBDA condition_value :
         IF ~is_truthy(condition_value.val) THEN OkS(condition_value.m, CfNone)
         ELSE IF n >= MaxLoopIter THEN OobS(condition_value.m)
         ELSE Try(ExecStmt(condition_value.m, s.body, d), LAMBDA r :
                  IF r.cf.t = "Return" THEN r
                  ELSE WhileLoop(r.m, s, d, n + 1)))

ExecIf(m, s, d) ==
    TryS(EvalExpr(m, s.condition, d), LAMBDA condition_value :
         IF is_truthy(condition_value.val)
         THEN ExecStmt(condition_value.m, s.then_branch, d)
         ELSE IF s.else_branch # << >>
         THEN ExecStmt(condition_value.m, s.else_branch[1], d)
         ELSE OkS(condition_value.m, CfNone))

ExecReturn(m, s, d) ==
    TryS(EvalExpr(m, s.expr, d), LAMBDA value :
         OkS(Log(value.m, [ev |-> "ret", depth |-> d, mod |-> m.imports,
                           val |-> value.val]),
             CfReturn(value.val)))

ExecVarDeclaration(m, s, d) ==
    IF s.initializer # << >>
    THEN TryS(EvalExpr(m, s.initializer[1], d), LAMBDA value :
              OkS([value.m EXCEPT !.globals = Insert(@, s.name, value.val)], CfNone))
    ELSE OkS([m EXCEPT !.globals = Insert(@, s.name, NilV)], CfNone)

\* match stmt { ... }, after the statement is entered in the trace
ExecStmtArms(m, s, d) ==
    CASE s.k = "Return" -> ExecReturn(m, s, d)
      [] s.k = "Expression" ->
            TryS(EvalExpr(m, s.expr, d), LAMBDA value : OkS(value.m, CfNone))
      [] s.k = "Print" -> ExecPrint(m, s, d)
      [] s.k = "VarDeclaration" -> ExecVarDeclaration(m, s, d)
      [] s.k = "FunctionDeclaration" ->
            OkS([m EXCEPT !.globals = Insert(@, s.name, FunctionV(s.parameters, s.body))],
                CfNone)
      [] s.k = "Import" -> load_module(m, s.names, s.module)
      [] s.k = "Block" -> ExecBlock(m, s.statements, d)
      [] s.k = "If" -> ExecIf(m, s, d)
      [] s.k = "While" -> WhileLoop(m, s, d, 0)

ExecStmt(m, s, d) ==
    ExecStmtArms(Log(m, [ev |-> "stmt", depth |-> d, mod |-> m.imports, kind |-> s.k]),
                 s, d)

\* ------------------------------------------------------------------------
\* The module files on disk.  A file is given by what reading, tokenizing
\* and parsing it yields: readable, parses, and the statements of its program.
\* ------------------------------------------------------------------------
Txt1(c) == <<c>>
SourceFile(statements) == [readable |-> TRUE, parses |-> TRUE, statements |-> statements]

\* math.pg:   let Pi = 3; let secret = 7; function Twice(n) { return n + n; }
MathModule ==
    SourceFile(<<StmtVarDeclaration(<<"P", "i">>, <<ExprNumber(3)>>),
                 StmtVarDeclaration(<<"s", "e", "c", "r", "e", "t">>, <<ExprNumber(7)>>),
                 StmtFunctionDeclaration(<<"T", "w", "i", "c", "e">>, <<Txt1("n")>>,
                    StmtBlock(<<StmtReturn(ExprBinary(ExprIdentifier(Txt1("n")), "Add",
                                                      ExprIdentifier(Txt1("n")), 1, 52))>>))>>)

\* early.pg:  let A = 1; if (true) { return 5; } print "late"; let B = 2;
EarlyModule ==
    SourceFile(<<StmtVarDeclaration(Txt1("A"), <<ExprNumber(1)>>),
                 StmtIf(ExprBoolean(TRUE), StmtBlock(<<StmtReturn(ExprNumber(5))>>), << >>),
                 StmtPrint(ExprString(<<"l", "a", "t", "e">>), << >>),
                 StmtVarDeclaration(Txt1("B"), <<ExprNumber(2)>>)>>)

\* examples/util.pg:  print "util"; let U = "u";
UtilModule ==
    SourceFile(<<StmtPrint(ExprString(<<"u", "t", "i", "l">>), << >>),
                 StmtVarDeclaration(Txt1("U"), <<ExprString(Txt1("u"))>>)>>)

\* helper.pg:  let rate = 2; let _hid = 4;
\*             function scale(n) { return n * rate; }
\*             function Double(n) { return scale(n); }
\*             function Rated(n) { return n * rate; }
\*             let Two = rate;
NameRate == <<"r", "a", "t", "e">>
NameHid == <<"_", "h", "i", "d">>
NameScale == <<"s", "c", "a", "l", "e">>
NameDouble == <<"D", "o", "u", "b", "l", "e">>
NameRated == <<"R", "a", "t", "e", "d">>
NameTwo == <<"T", "w", "o">>
HelperModule ==
    SourceFile(<<StmtVarDeclaration(NameRate, <<ExprNumber(2)>>),
                 StmtVarDeclaration(NameHid, <<ExprNumber(4)>>),
                 StmtFunctionDeclaration(NameScale, <<Txt1("n")>>,
                    StmtBlock(<<StmtReturn(ExprBinary(ExprIdentifier(Txt1("n")), "Multiply",
                                                      ExprIdentifier(NameRate), 3, 33))>>)),
                 StmtFunctionDeclaration(NameDouble, <<Txt1("n")>>,
                    StmtBlock(<<StmtReturn(ExprFunctionCall(NameScale,
                                                            <<ExprIdentifier(Txt1("n"))>>))>>)),
                 StmtFunctionDeclaration(NameRated, <<Txt1("n")>>,
                    StmtBlock(<<StmtReturn(ExprBinary(ExprIdentifier(Txt1("n")), "Multiply",
                                                      ExprIdentifier(NameRate), 5, 33))>>)),
                 StmtVarDeclaration(NameTwo, <<ExprIdentifier(NameRate)>>)>>)

\* ping.pg:   let P = 1; get Q from pong; let Late = 2;
NamePing == <<"p", "i", "n", "g">>
NamePong == <<"p", "o", "n", "g">>
NameSelf == <<"s", "e", "l", "f">>
NameChain == <<"c", "h", "a", "i", "n">>
PingModule ==
    SourceFile(<<StmtVarDeclaration(Txt1("P"), <<ExprNumber(1)>>),
                 StmtImport(<<Txt1("Q")>>, NamePong),
                 StmtVarDeclaration(<<"L", "a", "t", "e">>, <<ExprNumber(2)>>)>>)
\* pong.pg:   let Q = 1; get P from ping;
PongModule ==
    SourceFile(<<StmtVarDeclaration(Txt1("Q"), <<ExprNumber(1)>>),
                 StmtImport(<<Txt1("P")>>, NamePing)>>)
\* self.pg:   print "self"; get S from self; let S = 1;
SelfModule ==
    SourceFile(<<StmtPrint(ExprString(NameSelf), << >>),
                 StmtImport(<<Txt1("S")>>, NameSelf),
                 StmtVarDeclaration(Txt1("S"), <<ExprNumber(1)>>)>>)
\* chain.pg:  get {Pi, Twice} from math; let C = Twice(Pi);
ChainModule ==
    SourceFile(<<StmtImport(<<<<"P", "i">>, <<"T", "w", "i", "c", "e">>>>,
                            <<"m", "a", "t", "h">>),
                 StmtVarDeclaration(Txt1("C"),
                    <<ExprFunctionCall(<<"T", "w", "i", "c", "e">>,
                                       <<ExprIdentifier(<<"P", "i">>)>>)>>)>>)

Files ==
    [f \in {<<"m", "a", "t", "h">> \o DotPg, <<"e", "a", "r", "l", "y">> \o DotPg,
            ExamplesDir \o <<"u", "t", "i", "l">> \o DotPg,
            <<"h", "e", "l", "p", "e", "r">> \o DotPg,
            NamePing \o DotPg, NamePong \o DotPg, NameSelf \o DotPg, NameChain \o DotPg,
            <<"b", "a", "d">> \o DotPg} |->
        CASE f = <<"m", "a", "t", "h">> \o DotPg -> MathModule
          [] f = <<"h", "e", "l", "p", "e", "r">> \o DotPg -> HelperModule
          [] f = NamePing \o DotPg -> PingModule
          [] f = NamePong \o DotPg -> PongModule
          [] f = NameSelf \o DotPg -> SelfModule
          [] f = NameChain \o DotPg -> ChainModule
          [] f = <<"e", "a", "r", "l", "y">> \o DotPg -> EarlyModule
          [] f = ExamplesDir \o <<"u", "t", "i", "l">> \o DotPg -> UtilModule
          [] OTHER -> [readable |-> TRUE, parses |-> FALSE, statements |-> << >>]]

\* ------------------------------------------------------------------------
\* Interpreter::load_module
\* ------------------------------------------------------------------------
EndsWith(s, suffix) ==
    Len(suffix) <= Len(s) /\ SubSeq(s, Len(s) - Len(suffix) + 1, Len(s)) = suffix

\* the top-level statements of the module, run by the module interpreter
RunModule(mm, statements) ==
    IF statements = << >> THEN OkS(mm, CfNone)
    ELSE Try(ExecStmt(mm, Head(statements), 0), LAMBDA r :
             IF r.cf.t = "Return"
             THEN ErrS(r.m, <<"Return statement not allowed at module level">>)
             ELSE RunModule(r.m, Tail(statements)))

\* for name in names: copy an exportable name into the caller's globals
RECURSIVE ImportNames(_, _, _, _)
\* an import that copies nothing unless every name can be imported
ImportNamesAtomic(globals, module_globals, names, module_file) ==
    IF names = << >> THEN [globals |-> globals, ok |-> TRUE, err |-> << >>]
    ELSE IF \A j \in DOMAIN names :
                names[j] \in DOMAIN module_globals /\ IsUpperChar(names[j][1])
    THEN ImportNames(Insert(globals, Head(names), module_globals[Head(names)]),
                     module_globals, Tail(names), module_file)
    ELSE [globals |-> globals, ok |-> FALSE,
          err |-> <<"Name not found in module", Head(names), module_file>>]
\* a copy loop without the test of the first letter
ImportNamesAnyCase(globals, module_globals, names, module_file) ==
    IF names = << >> THEN [globals |-> globals, ok |-> TRUE, err |-> << >>]
    ELSE IF Head(names) \in DOMAIN module_globals
    THEN ImportNames(Insert(globals, Head(names), module_globals[Head(names)]),
                     module_globals, Tail(names), module_file)
    ELSE [globals |-> globals, ok |-> FALSE,
          err |-> <<"Name not found in module", Head(names), module_file>>]
ImportNames(globals, module_globals, names, module_file) ==
    IF names = << >> THEN [globals |-> globals, ok |-> TRUE, err |-> << >>]
    ELSE LET name == Head(names)
         IN  IF name \in DOMAIN module_globals
             THEN IF name # << >> /\ IsUpperChar(name[1])
                  THEN ImportNames(Insert(globals, name, module_globals[name]),
                                   module_globals, Tail(names), module_file)
                  ELSE [globals |-> globals, ok |-> FALSE,
                        err |-> <<"Cannot import - only names starting with uppercase letters can be imported", name>>]
             ELSE [globals |-> globals, ok |-> FALSE,
                   err |-> <<"Name not found in module", name, module_file>>]

\* the caller's interpreter after the import: what the module wrote and
\* read, and the caller's globals with the names copied so far
Caller(m, module_interpreter, globals) ==
    [module_interpreter.m EXCEPT !.globals = globals, !.imports = m.imports]

\* a copy step that also leaves the module's other globals with the caller
CopyResultWithModule(m, module_interpreter, imported) ==
    IF imported.ok
    THEN OkS(Caller(m, module_interpreter,
                    [x \in DOMAIN imported.globals \cup DOMAIN module_interpreter.m.globals |->
                        IF x \in DOMAIN imported.globals THEN imported.globals[x]
                        ELSE module_interpreter.m.globals[x]]), CfNone)
    ELSE ErrS(Caller(m, module_interpreter, imported.globals), imported.err)

CopyResult(m, module_interpreter, imported) ==
    IF imported.ok THEN OkS(Caller(m, module_interpreter, imported.globals), CfNone)
    ELSE ErrS(Caller(m, module_interpreter, imported.globals), imported.err)

\* the result of a load, entered in the trace with the names asked for, the
\* caller's globals before it and the module interpreter after its run
Loaded(m, names, module_file, module_interpreter, r) ==
    [r EXCEPT !.m = Log(r.m, [ev |-> "import", names |-> names, file |-> module_file,
                              pre |-> m.globals, ran |-> module_interpreter.ok,
                              module |-> module_interpreter.m.globals,
                              post |-> r.m.globals, ok |-> r.ok, err |-> r.err,
                              mod |-> m.imports])]

\* module_interpreter is the result of running the module's statements
Imported(m, names, module_file, module_interpreter) ==
    Loaded(m, names, module_file, module_interpreter,
           IF ~module_interpreter.ok
           THEN ErrS(Caller(m, module_interpreter, m.globals), module_interpreter.err)
           ELSE CopyResult(m, module_interpreter,
                           ImportNames(m.globals, module_interpreter.m.globals, names,
                                       module_file)))

load_module(m, names, module_path) ==
    LET full_path == IF EndsWith(module_path, DotPg) THEN module_path
                     ELSE module_path \o DotPg
        examples_path == ExamplesDir \o full_path
        module_file == IF full_path \in DOMAIN Files THEN full_path ELSE examples_path
    IN  IF ~(full_path \in DOMAIN Files \/ examples_path \in DOMAIN Files)
        THEN ErrS(m, <<"Module not found. Tried", module_path, full_path, examples_path>>)
        ELSE IF ~Files[module_file].readable
        THEN ErrS(m, <<"Failed to read module", module_file>>)
        ELSE IF ~Files[module_file].parses
        THEN ErrS(m, <<"Failed to parse module", module_file>>)
        ELSE IF m.imports >= MaxImportDepth THEN OobS(m)
        ELSE Imported(m, names, module_file,
                      RunModule([m EXCEPT !.globals = << >>, !.imports = @ + 1],
                                Files[module_file].statements))

\* ------------------------------------------------------------------------
\* Lexer (src/src/lexer.rs).  A lexer lx is the record of its fields; the
\* input is a sequence of characters.  tokenize panics on some inputs: the
\* result says whether it returned, with the tokens, or panicked, with the
\* message.
\* ------------------------------------------------------------------------
Token(k) == [k |-> k]
TokenNumber(n) == [k |-> "Number", n |-> n]
TokenIdentifier(name) == [k |-> "Identifier", name |-> name]
TokenString(s) == [k |-> "String", s |-> s]
Eof == Token("Eof")
TokenInfo(token, line, column) == [token |-> token, line |-> line, column |-> column]

Lexer(input) == [input |-> input, position |-> 0, line |-> 1, column |-> 1]

\* the character current_char returns at the end of the input
Nul == "NUL"
Digits == <<"0", "1", "2", "3", "4", "5", "6", "7", "8", "9">>
is_ascii_digit(c) == IndexIn(c, Digits) # 0
is_ascii_alphabetic(c) == IndexIn(c, LowerLetters) # 0 \/ IndexIn(c, UpperLetters) # 0

lexer_is_at_end(lx) == lx.position >= Len(lx.input)
current_char(lx) == IF lexer_is_at_end(lx) THEN Nul ELSE lx.input[lx.position + 1]
lexer_advance(lx) ==
    IF lexer_is_at_end(lx) THEN lx
    ELSE IF current_char(lx) = "\n"
         THEN [lx EXCEPT !.position = @ + 1, !.line = @ + 1, !.column = 1]
         ELSE [lx EXCEPT !.position = @ + 1, !.column = @ + 1]

RECURSIVE skip_whitespace(_)
skip_whitespace(lx) ==
    IF ~lexer_is_at_end(lx) /\ current_char(lx) \in {" ", "\r", "\t"}
    THEN skip_whitespace(lexer_advance(lx))
    ELSE lx

\* what a scan returns: the lexer after it and the text scanned
Scanned(lx, value) == [lx |-> lx, value |-> value]

\* the loop of scan_string, from the character after the opening quote
RECURSIVE StringBody(_, _)
StringBody(lx, value) ==
    IF lexer_is_at_end(lx) \/ current_char(lx) = "\"" THEN Scanned(lx, value)
    ELSE IF current_char(lx) = "\\"
    THEN StringBody(lexer_advance(lexer_advance(lx)),
                    value \o (CASE current_char(lexer_advance(lx)) = "n" -> <<"\n">>
                                [] current_char(lexer_advance(lx)) = "t" -> <<"\t">>
                                [] current_char(lexer_advance(lx)) = "r" -> <<"\r">>
                                [] current_char(lexer_advance(lx)) = "\\" -> <<"\\">>
                                [] current_char(lexer_advance(lx)) = "\"" -> <<"\"">>
                                [] OTHER -> <<"\\", current_char(lexer_advance(lx))>>))
    ELSE StringBody(lexer_advance(lx), value \o <<current_char(lx)>>)
scan_string(lx) == StringBody(lexer_advance(lx), << >>)

RECURSIVE scan_number(_, _)
scan_number(lx, value) ==
    IF ~lexer_is_at_end(lx) /\ (is_ascii_digit(current_char(lx)) \/ current_char(lx) = ".")
    THEN scan_number(lexer_advance(lx), value \o <<current_char(lx)>>)
    ELSE Scanned(lx, value)

RECURSIVE scan_identifier(_, _)
scan_identifier(lx, value) ==
    IF /\ ~lexer_is_at_end(lx)
       /\ (is_ascii_alphabetic(current_char(lx)) \/ is_ascii_digit(current_char(lx))
           \/ current_char(lx) = "_")
    THEN scan_identifier(lexer_advance(lx), value \o <<current_char(lx)>>)
    ELSE Scanned(lx, value)

\* str::parse::<f64> on digits and dots: the number of a digit string, as far
\* as it is an integer
RECURSIVE DigitsValue(_)
DigitsValue(text) ==
    IF text = << >> THEN 0
    ELSE 10 * DigitsValue(SubSeq(text, 1, Len(text) - 1)) + (IndexIn(text[Len(text)], Digits) - 1)
Dots(text) == {i \in 1..Len(text) : text[i] = "."}
ParsesAsNumber(text) == Cardinality(Dots(text)) <= 1
IsInteger(text) ==
    \A i \in Dots(text) : \A j \in i + 1..Len(text) : text[j] = "0"
IntegerPart(text) ==
    IF Dots(text) = {} THEN text
    ELSE SubSeq(text, 1, (CHOOSE i \in Dots(text) : TRUE) - 1)

Keywords == {<<"l", "e", "t">>, <<"i", "f">>, <<"e", "l", "s", "e">>,
             <<"w", "h", "i", "l", "e">>, <<"b", "r", "e", "a", "k">>,
             <<"p", "r", "i", "n", "t">>, <<"f", "u", "n", "c", "t", "i", "o", "n">>,
             <<"t", "r", "u", "e">>, <<"f", "a", "l", "s", "e">>,
             <<"r", "e", "t", "u", "r", "n">>, <<"g", "e", "t">>, <<"f", "r", "o", "m">>}
KeywordToken(text) ==
    CASE text = <<"l", "e", "t">> -> Token("Let")
      [] text = <<"i", "f">> -> Token("If")
      [] text = <<"e", "l", "s", "e">> -> Token("Else")
      [] text = <<"w", "h", "i", "l", "e">> -> Token("While")
      [] text = <<"b", "r", "e", "a", "k">> -> Token("Break")
      [] text = <<"p", "r", "i", "n", "t">> -> Token("Print")
      [] text = <<"f", "u", "n", "c", "t", "i", "o", "n">> -> Token("Function")
      [] text = <<"t", "r", "u", "e">> -> Token("True")
      [] text = <<"f", "a", "l", "s", "e">> -> Token("False")
      [] text = <<"r", "e", "t", "u", "r", "n">> -> Token("Return")
      [] text = <<"g", "e", "t">> -> Token("Get")
      [] text = <<"f", "r", "o", "m">> -> Token("From")
keyword_or_identifier(text) ==
    IF ToLowerText(text) \in Keywords THEN KeywordToken(ToLowerText(text))
    ELSE TokenIdentifier(text)

\* the result of tokenize
Tokens(tokens) == [ok |-> TRUE, oob |-> FALSE, tokens |-> tokens, panic |-> << >>]
Panic(message) == [ok |-> FALSE, oob |-> FALSE, tokens |-> << >>, panic |-> message]
NotModelled == [ok |-> FALSE, oob |-> TRUE, tokens |-> << >>, panic |-> << >>]

\* the characters that are a token on their own
\* the character U+0060, which a TLA+ string cannot hold
Backquote == "U+0060"
SingleChars == {Backquote, "+", "*", ".", "(", ")", "{", "}", "[", "]", ";", ",", "\n"}
SingleToken(c) ==
    CASE c = Backquote -> Token("Backtick") [] c = "+" -> Token("Plus")
      [] c = "*" -> Token("Star") [] c = "." -> Token("Dot")
      [] c = "(" -> Token("LeftParen") [] c = ")" -> Token("RightParen")
      [] c = "{" -> Token("LeftBrace") [] c = "}" -> Token("RightBrace")
      [] c = "[" -> Token("LeftBracket") [] c = "]" -> Token("RightBracket")
      [] c = ";" -> Token("Semicolon") [] c = "," -> Token("Comma")
      [] c = "\n" -> Token("Newline")

\* a comment: skip to the end of the line
RECURSIVE SkipComment(_)
SkipComment(lx) ==
    IF ~lexer_is_at_end(lx) /\ current_char(lx) # "\n" THEN SkipComment(lexer_advance(lx))
    ELSE lx

\* the while loop of tokenize; lx0 is the lexer at the top of an iteration
RECURSIVE TokenizeLoop(_, _)
\* the iteration at a character that starts a literal, a name or nothing
ScanLiteral(lx, tokens, s) ==
    CASE current_char(lx) = "\"" ->
            IF lexer_is_at_end(s.lx)
            THEN Panic(<<"Unterminated string", s.lx.line, s.lx.column>>)
            ELSE TokenizeLoop(lexer_advance(s.lx),
                              Append(tokens, TokenInfo(TokenString(s.value), lx.line, lx.column)))
      [] is_ascii_digit(current_char(lx)) ->
            IF ~ParsesAsNumber(s.value)
            THEN Panic(<<"Invalid number", s.value, s.lx.line, s.lx.column>>)
            ELSE IF ~IsInteger(s.value) THEN NotModelled
            ELSE TokenizeLoop(s.lx,
                              Append(tokens, TokenInfo(TokenNumber(DigitsValue(IntegerPart(s.value))),
                                                       lx.line, lx.column)))
      [] OTHER ->
            TokenizeLoop(s.lx, Append(tokens, TokenInfo(keyword_or_identifier(s.value),
                                                        lx.line, lx.column)))

\* the iteration at an operator of one or two characters; nx is the lexer
\* after the first character
ScanOperator(lx, tokens, nx) ==
    CASE current_char(lx) = "-" ->
            IF current_char(nx) = ">"
            THEN TokenizeLoop(lexer_advance(nx),
                              Append(tokens, TokenInfo(Token("Arrow"), lx.line, lx.column)))
            ELSE TokenizeLoop(nx, Append(tokens, TokenInfo(Token("Minus"), lx.line, lx.column)))
      [] current_char(lx) = "/" ->
            IF current_char(nx) = "/" THEN TokenizeLoop(SkipComment(nx), tokens)
            ELSE TokenizeLoop(nx, Append(tokens, TokenInfo(Token("Slash"), lx.line, lx.column)))
      [] current_char(lx) = "=" ->
            IF current_char(nx) = "="
            THEN TokenizeLoop(lexer_advance(nx),
                              Append(tokens, TokenInfo(Token("Equal"), lx.line, lx.column)))
            ELSE TokenizeLoop(nx, Append(tokens, TokenInfo(Token("Assign"), lx.line, lx.column)))
      [] current_char(lx) = "!" ->
            IF current_char(nx) = "="
            THEN TokenizeLoop(lexer_advance(nx),
                              Append(tokens, TokenInfo(Token("NotEqual"), lx.line, lx.column)))
            ELSE Panic(<<"Unexpected character", "!", lx.line, lx.column>>)
      [] current_char(lx) = "<" ->
            IF current_char(nx) = "="
            THEN TokenizeLoop(lexer_advance(nx),
                              Append(tokens, TokenInfo(Token("LessEqual"), lx.line, lx.column)))
            ELSE IF current_char(nx) = "-"
            THEN TokenizeLoop(lexer_advance(nx),
                              Append(tokens, TokenInfo(Token("ArrowLeft"), lx.line, lx.column)))
            ELSE TokenizeLoop(nx, Append(tokens, TokenInfo(Token("Less"), lx.line, lx.column)))
      [] current_char(lx) = ">" ->
            IF current_char(nx) = "="
            THEN TokenizeLoop(lexer_advance(nx),
                              Append(tokens, TokenInfo(Token("GreaterEqual"), lx.line, lx.column)))
            ELSE TokenizeLoop(nx, Append(tokens, TokenInfo(Token("Greater"), lx.line, lx.column)))

\* the iteration at the character of lx, after the whitespace was skipped
ScanToken(lx, tokens) ==
    CASE current_char(lx) \in SingleChars ->
            TokenizeLoop(lexer_advance(lx),
                         Append(tokens, TokenInfo(SingleToken(current_char(lx)),
                                                  lx.line, lx.column)))
      [] current_char(lx) \in {"-", "/", "=", "!", "<", ">"} ->
            ScanOperator(lx, tokens, lexer_advance(lx))
      [] current_char(lx) = "\"" -> ScanLiteral(lx, tokens, scan_string(lx))
      [] is_ascii_digit(current_char(lx)) -> ScanLiteral(lx, tokens, scan_number(lx, << >>))
      [] is_ascii_alphabetic(current_char(lx)) \/ current_char(lx) = "_" ->
            ScanLiteral(lx, tokens, scan_identifier(lx, << >>))
      [] OTHER -> Panic(<<"Unexpected character", current_char(lx), lx.line, lx.column>>)

\* the end of tokenize: the Eof token at the lexer's line and column
Finished(lx, tokens) == Tokens(Append(tokens, TokenInfo(Eof, lx.line, lx.column)))
\* an iteration after skip_whitespace
Skipped(lx, tokens) ==
    IF lexer_is_at_end(lx) THEN Finished(lx, tokens) ELSE ScanToken(lx, tokens)
TokenizeLoop(lx0, tokens) ==
    IF lexer_is_at_end(lx0) THEN Finished(lx0, tokens)
    ELSE Skipped(skip_whitespace(lx0), tokens)

tokenize(input) == TokenizeLoop(Lexer(input), << >>)

\* ------------------------------------------------------------------------
\* Parser (src/src/parser.rs).  A parser p is the record of its fields, with
\* current counted from 0 as in the source.  A parsing function returns the
\* parser after it with the node parsed, or with the error.
\* ------------------------------------------------------------------------
Parser(tokens) == [tokens |-> tokens, current |-> 0]
Parsed(p, node) == [ok |-> TRUE, p |-> p, node |-> node, err |-> << >>]
Failed(p, err) == [ok |-> FALSE, p |-> p, node |-> << >>, err |-> err]

peek(p) == p.tokens[p.current + 1]
previous(p) == p.tokens[p.current]
is_at_end(p) == peek(p).token = Eof
\* check(&Token::K): the tokens compared with check carry no value, kind is K
check(p, kind) == ~is_at_end(p) /\ peek(p).token.k = kind
\* the parser after advance(); the token advance returns is previous of it
advance(p) == IF ~is_at_end(p) THEN [p EXCEPT !.current = @ + 1] ELSE p
consume(p, kind, message) ==
    IF check(p, kind) THEN Parsed(advance(p), previous(advance(p)))
    ELSE Failed(p, <<message, peek(p).line, peek(p).column>>)
consume_identifier(p, message) ==
    IF previous(advance(p)).token.k = "Identifier"
    THEN Parsed(advance(p), previous(advance(p)))
    ELSE Failed(advance(p), <<message, previous(advance(p)).line,
                              previous(advance(p)).column>>)

RECURSIVE statement(_)
RECURSIVE expression(_)
RECURSIVE comparison(_)
RECURSIVE term(_)
RECURSIVE factor(_)
RECURSIVE unary(_)

\* loop { push(expression()?); if !match_token(Comma) { break; } }
RECURSIVE ExprList(_, _)
ExprList(p, items) ==
    Try(expression(p), LAMBDA e :
        IF check(e.p, "Comma") THEN ExprList(advance(e.p), Append(items, e.node))
        ELSE Parsed(e.p, Append(items, e.node)))
\* the elements of an array or the arguments of a call, up to the closing token
Elements(p, closing) == IF check(p, closing) THEN Parsed(p, << >>) ELSE ExprList(p, << >>)

parse_transform(p, transform_type) ==
    IF check(p, "LeftBrace")
    THEN IF peek(advance(p)).token.k = "Identifier"
         THEN Try(consume(advance(advance(p)), "RightBrace", "Expect '}' after variable name"),
                  LAMBDA c : Parsed(c.p, peek(advance(p)).token.name))
         ELSE Failed(advance(p), <<"Expect variable name in transform">>)
    ELSE IF peek(p).token.k = "Identifier"
         THEN Parsed(advance(p), peek(p).token.name)
         ELSE Failed(p, <<"Expect pattern in transform", transform_type>>)

\* `from -> to`, after replaceChar
TransformArgument(p) ==
    Try(consume(p, "Backtick", "Expect '`' after 'replaceChar'"), LAMBDA open :
        Try(parse_transform(open.p, "from"), LAMBDA from :
            Try(consume(from.p, "Arrow", "Expect '->' in transform"), LAMBDA arrow :
                Try(parse_transform(arrow.p, "to"), LAMBDA to :
                    Try(consume(to.p, "Backtick", "Expect '`' to close transform"),
                        LAMBDA close : Parsed(close.p, ExprTransform(from.node, to.node)))))))

\* ( expression ), with the messages of the method
OneArgument(p, open_message, close_message) ==
    Try(consume(p, "LeftParen", open_message), LAMBDA open :
        Try(expression(open.p), LAMBDA arg :
            Try(consume(arg.p, "RightParen", close_message), LAMBDA close :
                Parsed(close.p, arg.node))))

\* ( expression , expression ): a Binary node with Add as the carrier of the pair
TwoArguments(p) ==
    Try(consume(p, "LeftParen", "Expect '(' after method name"), LAMBDA open :
        Try(expression(open.p), LAMBDA arg1 :
            Try(consume(arg1.p, "Comma", "Expect ',' between arguments"), LAMBDA comma :
                Try(expression(comma.p), LAMBDA arg2 :
                    Try(consume(arg2.p, "RightParen", "Expect ')' after arguments"),
                        LAMBDA close :
                            Parsed(close.p, ExprBinary(arg1.node, "Add", arg2.node, 0, 0)))))))

NoArguments(p) ==
    Try(consume(p, "LeftParen", "Expect '(' after method name"), LAMBDA open :
        Try(consume(open.p, "RightParen", "Expect ')' after method name"), LAMBDA close :
            Parsed(close.p, ExprNil)))

\* the method names the parser knows, as the names of the evaluator
MethodNames ==
    {"replaceChar", "push", "pop", "length", "clear", "reverse", "toUpper", "toLower",
     "trim", "getYear", "getMonth", "getDay", "keys", "insert", "set", "remove", "get",
     "has", "format"}
MethodText(method) ==
    CASE method = "replaceChar" -> <<"r", "e", "p", "l", "a", "c", "e", "C", "h", "a", "r">>
      [] method = "push" -> <<"p", "u", "s", "h">>
      [] method = "pop" -> <<"p", "o", "p">>
      [] method = "length" -> <<"l", "e", "n", "g", "t", "h">>
      [] method = "clear" -> <<"c", "l", "e", "a", "r">>
      [] method = "reverse" -> <<"r", "e", "v", "e", "r", "s", "e">>
      [] method = "toUpper" -> <<"t", "o", "U", "p", "p", "e", "r">>
      [] method = "toLower" -> <<"t", "o", "L", "o", "w", "e", "r">>
      [] method = "trim" -> <<"t", "r", "i", "m">>
      [] method = "getYear" -> <<"g", "e", "t", "Y", "e", "a", "r">>
      [] method = "getMonth" -> <<"g", "e", "t", "M", "o", "n", "t", "h">>
      [] method = "getDay" -> <<"g", "e", "t", "D", "a", "y">>
      [] method = "keys" -> <<"k", "e", "y", "s">>
      [] method = "insert" -> <<"i", "n", "s", "e", "r", "t">>
      [] method = "set" -> <<"s", "e", "t">>
      [] method = "remove" -> <<"r", "e", "m", "o", "v", "e">>
      [] method = "get" -> <<"g", "e", "t">>
      [] method = "has" -> <<"h", "a", "s">>
      [] method = "format" -> <<"f", "o", "r", "m", "a", "t">>
Supported(text) == \E method \in MethodNames : MethodText(method) = text
MethodNamed(text) == CHOOSE method \in MethodNames : MethodText(method) = text

\* the argument of a method call, by the name of the method
MethodArgument(p, method_name) ==
    CASE method_name = "replaceChar" -> TransformArgument(p)
      [] method_name = "push" ->
            OneArgument(p, "Expect '(' after 'push'", "Expect ')' after push argument")
      [] method_name \in {"pop", "length", "clear", "reverse", "toUpper", "toLower", "trim",
                          "getYear", "getMonth", "getDay", "keys"} -> NoArguments(p)
      [] method_name \in {"insert", "set"} -> TwoArguments(p)
      [] method_name \in {"remove", "get", "has", "format"} ->
            OneArgument(p, "Expect '(' after method name", "Expect ')' after argument")

\* while self.check(&Token::LeftParen): the call of an identifier
RECURSIVE CallLoop(_)
CallLoop(r) ==
    IF check(r.p, "LeftParen")
    THEN Try(Elements(advance(r.p), "RightParen"), LAMBDA arguments :
             Try(consume(arguments.p, "RightParen", "Expect ')' after arguments."),
                 LAMBDA close :
                     IF r.node.k = "Identifier"
                     THEN CallLoop(Parsed(close.p,
                                          ExprFunctionCall(r.node.name, arguments.node)))
                     ELSE Failed(close.p, <<"Only identifiers can be called as functions.">>)))
    ELSE r

\* the text after the dot: the name of an identifier, "get" for the keyword
MethodNameAt(p) ==
    CASE peek(p).token.k = "Identifier" -> <<peek(p).token.name>>
      [] peek(p).token.k = "Get" -> <<MethodText("get")>>
      [] OTHER -> << >>

\* while self.check(&Token::Dot): a method call on the expression so far
RECURSIVE MethodLoop(_)
MethodLoop(r) ==
    IF check(r.p, "Dot")
    THEN IF MethodNameAt(advance(r.p)) = << >>
         THEN Failed(advance(r.p), <<"Expect method name after '.'.">>)
         ELSE IF ~Supported(MethodNameAt(advance(r.p))[1])
         THEN Failed(advance(advance(r.p)),
                     <<"Unsupported method", MethodNameAt(advance(r.p))[1]>>)
         ELSE Try(MethodArgument(advance(advance(r.p)),
                                 MethodNamed(MethodNameAt(advance(r.p))[1])),
                  LAMBDA argument :
                      MethodLoop(Parsed(argument.p,
                                        ExprMethodCall(r.node,
                                                       MethodNamed(MethodNameAt(advance(r.p))[1]),
                                                       argument.node))))
    ELSE r

\* while self.check(&Token::LeftBracket): an index on the expression so far
RECURSIVE IndexLoop(_)
IndexLoop(r) ==
    IF check(r.p, "LeftBracket")
    THEN Try(expression(advance(r.p)), LAMBDA index :
             Try(consume(index.p, "RightBracket", "Expect ']' after array index."),
                 LAMBDA close : IndexLoop(Parsed(close.p, ExprIndex(r.node, index.node)))))
    ELSE r

\* the first match of primary, on the token that advance returned
Literal(p, token) ==
    CASE token.k = "Number" -> Parsed(p, ExprNumber(token.n))
      [] token.k = "String" -> Parsed(p, ExprString(token.s))
      [] token.k = "True" -> Parsed(p, ExprBoolean(TRUE))
      [] token.k = "False" -> Parsed(p, ExprBoolean(FALSE))
      [] token.k = "Identifier" -> Parsed(p, ExprIdentifier(token.name))
      [] token.k = "LeftParen" ->
            Try(expression(p), LAMBDA expr :
                Try(consume(expr.p, "RightParen", "Expect ')' after expression."),
                    LAMBDA close : Parsed(close.p, expr.node)))
      [] token.k = "LeftBracket" ->
            Try(Elements(p, "RightBracket"), LAMBDA elements :
                Try(consume(elements.p, "RightBracket", "Expect ']' after array elements."),
                    LAMBDA close : Parsed(close.p, ExprFixedArray(elements.node))))
      [] token.k = "LeftBrace" ->
            Try(Elements(p, "RightBrace"), LAMBDA elements :
                Try(consume(elements.p, "RightBrace", "Expect '}' after array elements."),
                    LAMBDA close : Parsed(close.p, ExprDynamicArray(elements.node))))
      [] OTHER -> Failed(p, <<"Expect expression.">>)

\* primary called at Eof after an opening token: advance does not move and
\* returns the opening token again, its arm calls expression at the same
\* position, no level down to unary matches at Eof, and primary is called
\* again with the same parser
Recurs(p) ==
    /\ is_at_end(p)
    /\ p.current > 0
    /\ previous(p).token.k \in {"LeftParen", "LeftBracket", "LeftBrace"}
\* the recursion does not return: the thread runs out of stack and the
\* process is aborted
StackOverflow == <<"thread 'main' has overflowed its stack">>
Overflowed(p) == Failed(p, StackOverflow)

primary(p) ==
    IF Recurs(p) THEN Overflowed(p)
    ELSE Try(Literal(advance(p), previous(advance(p)).token), LAMBDA expr :
             Try(CallLoop(expr), LAMBDA called :
                 Try(MethodLoop(called), LAMBDA method : IndexLoop(method))))

unary(p) ==
    IF check(p, "Minus")
    THEN Try(unary(advance(p)), LAMBDA operand : Parsed(operand.p, ExprUnary(operand.node)))
    ELSE primary(p)

\* the operators of the four binary levels, by the kind of their token
LevelTokens(level) ==
    CASE level = "equality" -> {"Equal", "NotEqual"}
      [] level = "comparison" -> {"Less", "LessEqual", "Greater", "GreaterEqual"}
      [] level = "term" -> {"Plus", "Minus"}
      [] level = "factor" -> {"Star", "Slash"}
BinaryOpOf(kind) ==
    CASE kind = "Plus" -> "Add" [] kind = "Minus" -> "Subtract"
      [] kind = "Star" -> "Multiply" [] kind = "Slash" -> "Divide"
      [] OTHER -> kind
\* the operand of a level: the next tighter level
Operand(level, p) ==
    CASE level = "equality" -> comparison(p)
      [] level = "comparison" -> term(p)
      [] level = "term" -> factor(p)
      [] level = "factor" -> unary(p)

\* while match_token(one of the level's operators): the node so far becomes
\* the left operand, the line and column are those of the operator token
RECURSIVE BinaryLoop(_, _)
\* a loop that takes the rest of the level as the right operand
BinaryLoopRight(level, expr) ==
    IF ~is_at_end(expr.p) /\ peek(expr.p).token.k \in LevelTokens(level)
    THEN Try(Operand(level, advance(expr.p)), LAMBDA operand :
             Try(BinaryLoop(level, operand), LAMBDA right :
                 Parsed(right.p,
                        ExprBinary(expr.node, BinaryOpOf(peek(expr.p).token.k),
                                   right.node, peek(expr.p).line,
                                   peek(expr.p).column))))
    ELSE expr
BinaryLoop(level, expr) ==
    IF ~is_at_end(expr.p) /\ peek(expr.p).token.k \in LevelTokens(level)
    THEN Try(Operand(level, advance(expr.p)), LAMBDA right :
             BinaryLoop(level,
                        Parsed(right.p,
                               ExprBinary(expr.node, BinaryOpOf(peek(expr.p).token.k),
                                          right.node, peek(expr.p).line,
                                          peek(expr.p).column))))
    ELSE expr

factor(p) == Try(unary(p), LAMBDA expr : BinaryLoop("factor", expr))
term(p) == Try(factor(p), LAMBDA expr : BinaryLoop("term", expr))
comparison(p) == Try(term(p), LAMBDA expr : BinaryLoop("comparison", expr))
equality(p) == Try(comparison(p), LAMBDA expr : BinaryLoop("equality", expr))

RECURSIVE assignment(_)
assignment(p) ==
    Try(equality(p), LAMBDA expr :
        IF check(expr.p, "Assign")
        THEN Try(assignment(advance(expr.p)), LAMBDA value :
                 IF expr.node.k = "Identifier"
                 THEN Parsed(value.p, ExprAssignment(expr.node.name, value.node))
                 ELSE Failed(value.p, <<"Invalid assignment target.">>))
        ELSE expr)

expression(p) == assignment(p)

\* while self.match_token(&Token::Comma) { arguments.push(self.expression()?); }
RECURSIVE PrintArguments(_, _)
PrintArguments(p, arguments) ==
    IF check(p, "Comma")
    THEN Try(expression(advance(p)), LAMBDA argument :
             PrintArguments(argument.p, Append(arguments, argument.node)))
    ELSE Parsed(p, arguments)

PrintEnd(p, format_expr, arguments) ==
    Try(consume(p, "Semicolon", "Expect ';' after value."), LAMBDA semicolon :
        Parsed(semicolon.p, StmtPrint(format_expr, arguments)))

print_statement(p) ==
    IF check(p, "LeftParen")
    THEN Try(expression(advance(p)), LAMBDA format_expr :
             Try(PrintArguments(format_expr.p, << >>), LAMBDA arguments :
                 Try(consume(arguments.p, "RightParen", "Expect ')' after print arguments."),
                     LAMBDA close : PrintEnd(close.p, format_expr.node, arguments.node))))
    ELSE Try(expression(p), LAMBDA format_expr :
             Try(PrintArguments(format_expr.p, << >>), LAMBDA arguments :
                 PrintEnd(arguments.p, format_expr.node, arguments.node)))

return_statement(p) ==
    Try(expression(p), LAMBDA expr :
        Try(consume(expr.p, "Semicolon", "Expect ';' after return value."), LAMBDA semicolon :
            Parsed(semicolon.p, StmtReturn(expr.node))))

\* the names of an import list: identifiers separated by commas
RECURSIVE ImportList(_, _)
ImportList(p, names) ==
    Try(consume_identifier(p, "Expect identifier in import list"), LAMBDA name_token :
        IF check(name_token.p, "Comma")
        THEN ImportList(advance(name_token.p), Append(names, name_token.node.token.name))
        ELSE Parsed(name_token.p, Append(names, name_token.node.token.name)))

ImportedNames(p) ==
    IF check(p, "LeftBrace")
    THEN Try(ImportList(advance(p), << >>), LAMBDA names :
             Try(consume(names.p, "RightBrace", "Expect '}' after import list"),
                 LAMBDA close : Parsed(close.p, names.node)))
    ELSE Try(consume_identifier(p, "Expect identifier after GET"), LAMBDA name_token :
             Parsed(name_token.p, <<name_token.node.token.name>>))

\* the parts of the module path after the first, joined with dots
RECURSIVE ModuleParts(_, _)
ModuleParts(p, module) ==
    IF check(p, "Dot")
    THEN Try(consume_identifier(advance(p), "Expect identifier after dot in module path"),
             LAMBDA part_token :
                 ModuleParts(part_token.p, module \o <<".">> \o part_token.node.token.name))
    ELSE Parsed(p, module)

ModulePath(p, names) ==
    Try(consume_identifier(p, "Expect module path"), LAMBDA first_part :
        Try(ModuleParts(first_part.p, first_part.node.token.name), LAMBDA module :
            Try(consume(module.p, "Semicolon", "Expect ';' after import statement"),
                LAMBDA semicolon : Parsed(semicolon.p, StmtImport(names, module.node)))))

import_statement(p) ==
    Try(ImportedNames(p), LAMBDA names :
        IF peek(names.p).token.k \in {"From", "ArrowLeft"}
        THEN ModulePath(advance(names.p), names.node)
        ELSE Failed(names.p, <<"Expect 'from' or '<-' after import names",
                               peek(names.p).token, peek(names.p).line,
                               peek(names.p).column>>))

VarEnd(p, name, initializer) ==
    Try(consume(p, "Semicolon", "Expect ';' after variable declaration."), LAMBDA semicolon :
        Parsed(semicolon.p, StmtVarDeclaration(name, initializer)))

var_declaration(p) ==
    Try(consume_identifier(p, "Expect variable name."), LAMBDA name_token :
        IF check(name_token.p, "Assign")
        THEN Try(expression(advance(name_token.p)), LAMBDA initializer :
                 VarEnd(initializer.p, name_token.node.token.name, <<initializer.node>>))
        ELSE VarEnd(name_token.p, name_token.node.token.name, << >>))

\* the parameters of a function declaration: identifiers separated by commas
RECURSIVE ParameterList(_, _)
ParameterList(p, parameters) ==
    Try(consume_identifier(p, "Expect parameter name."), LAMBDA param_token :
        IF check(param_token.p, "Comma")
        THEN ParameterList(advance(param_token.p),
                           Append(parameters, param_token.node.token.name))
        ELSE Parsed(param_token.p, Append(parameters, param_token.node.token.name)))
Parameters(p) ==
    IF check(p, "RightParen") THEN Parsed(p, << >>) ELSE ParameterList(p, << >>)

\* the statements up to a closing brace or the end of the tokens, newlines skipped
RECURSIVE BlockBody(_, _)
BlockBody(p, statements) ==
    IF ~check(p, "RightBrace") /\ ~is_at_end(p)
    THEN IF check(p, "Newline") THEN BlockBody(advance(p), statements)
         ELSE Try(statement(p), LAMBDA stmt : BlockBody(stmt.p, Append(statements, stmt.node)))
    ELSE Parsed(p, statements)

function_declaration(p) ==
    Try(consume_identifier(p, "Expect function name."), LAMBDA name_token :
     Try(consume(name_token.p, "LeftParen", "Expect '(' after function name."), LAMBDA open :
      Try(Parameters(open.p), LAMBDA parameters :
       Try(consume(parameters.p, "RightParen", "Expect ')' after parameters."), LAMBDA close :
        Try(consume(close.p, "LeftBrace", "Expect '{' before function body."), LAMBDA brace :
         Try(BlockBody(brace.p, << >>), LAMBDA body_statements :
          Try(consume(body_statements.p, "RightBrace", "Expect '}' after function body."),
              LAMBDA end :
                  Parsed(end.p, StmtFunctionDeclaration(name_token.node.token.name,
                                                        parameters.node,
                                                        StmtBlock(body_statements.node))))))))))

ElseBranch(p, condition, then_branch) ==
    IF check(p, "Else")
    THEN Try(statement(advance(p)), LAMBDA else_branch :
             Parsed(else_branch.p, StmtIf(condition, then_branch, <<else_branch.node>>)))
    ELSE Parsed(p, StmtIf(condition, then_branch, << >>))

if_statement(p) ==
    Try(consume(p, "LeftParen", "Expect '(' after 'if'."), LAMBDA open :
        Try(expression(open.p), LAMBDA condition :
            Try(consume(condition.p, "RightParen", "Expect ')' after if condition."),
                LAMBDA close :
                    Try(statement(close.p), LAMBDA then_branch :
                        ElseBranch(then_branch.p, condition.node, then_branch.node)))))

while_statement(p) ==
    Try(consume(p, "LeftParen", "Expect '(' after 'while'."), LAMBDA open :
        Try(expression(open.p), LAMBDA condition :
            Try(consume(condition.p, "RightParen", "Expect ')' after condition."),
                LAMBDA close :
                    Try(statement(close.p), LAMBDA body :
                        Parsed(body.p, StmtWhile(condition.node, body.node))))))

block_statement(p) ==
    Try(BlockBody(p, << >>), LAMBDA statements :
        Try(consume(statements.p, "RightBrace", "Expect '}' after block."), LAMBDA close :
            Parsed(close.p, StmtBlock(statements.node))))

expression_statement(p) ==
    Try(expression(p), LAMBDA expr :
        Try(consume(expr.p, "Semicolon", "Expect ';' after expression."), LAMBDA semicolon :
            Parsed(semicolon.p, StmtExpression(expr.node))))

statement(p) ==
    CASE check(p, "Get") -> import_statement(advance(p))
      [] check(p, "Return") -> return_statement(advance(p))
      [] check(p, "Print") -> print_statement(advance(p))
      [] check(p, "Let") -> var_declaration(advance(p))
      [] check(p, "Function") -> function_declaration(advance(p))
      [] check(p, "If") -> if_statement(advance(p))
      [] check(p, "While") -> while_statement(advance(p))
      [] check(p, "LeftBrace") -> block_statement(advance(p))
      [] OTHER -> expression_statement(p)

\* the loop of parse: statements up to Eof, newlines between them skipped
RECURSIVE ParseLoop(_, _)
ParseLoop(p, statements) ==
    IF is_at_end(p) THEN Parsed(p, statements)
    ELSE IF check(p, "Newline") THEN ParseLoop(advance(p), statements)
    ELSE Try(statement(p), LAMBDA stmt : ParseLoop(stmt.p, Append(statements, stmt.node)))
parse(tokens) == ParseLoop(Parser(tokens), << >>)

\* ------------------------------------------------------------------------
\* Inputs: the scripts fed to the interpreter.  A script is a sequence of
\* source lines, a line is the program (sequence of statements) it parses to.
\* ------------------------------------------------------------------------
Id(c) == ExprIdentifier(<<c>>)
Num(n) == ExprNumber(n)
Str(s) == ExprString(s)
Call(c, arguments) == ExprFunctionCall(<<c>>, arguments)
Let(c, e) == StmtVarDeclaration(<<c>>, <<e>>)
Fn(c, params, statements) ==
    StmtFunctionDeclaration(<<c>>, [i \in 1..Len(params) |-> <<params[i]>>],
                            StmtBlock(statements))
Bin(l, operator, r) == ExprBinary(l, operator, r, 1, 1)
Pair(l, r) == ExprBinary(l, "Add", r, 1, 1)
Say(s) == StmtPrint(ExprString(s), << >>)
Show(e) == StmtPrint(e, << >>)
SayNo == Say(<<"n", "o">>)

\* function f(a, b) { return b; }
FnSecond == Fn("f", <<"a", "b">>, <<StmtReturn(Id("b"))>>)
\* function e(p) { let x = 9; y = 2; function h() { return 1; } p = p + 1; return p; }
FnEffects ==
    Fn("e", <<"p">>,
       <<Let("x", Num(9)),
         StmtExpression(ExprAssignment(<<"y">>, Num(2))),
         Fn("h", << >>, <<StmtReturn(Num(1))>>),
         StmtExpression(ExprAssignment(<<"p">>, Bin(Id("p"), "Add", Num(1)))),
         StmtReturn(Id("p"))>>)
\* function n(p) { p = 0; let q = 1; }
FnFallOff ==
    Fn("n", <<"p">>, <<StmtExpression(ExprAssignment(<<"p">>, Num(0))), Let("q", Num(1))>>)
\* function b(a) { let x = 3; return a + nil; }
FnFail == Fn("b", <<"a">>, <<Let("x", Num(3)), StmtReturn(Bin(Id("a"), "Add", ExprNil))>>)
\* function t(n) { if (n == 0) { return 1; } return n * t(n - 1); }
FnFact ==
    Fn("t", <<"n">>,
       <<StmtIf(Bin(Id("n"), "Equal", Num(0)), StmtBlock(<<StmtReturn(Num(1))>>), << >>),
         StmtReturn(Bin(Id("n"), "Multiply",
                        Call("t", <<Bin(Id("n"), "Subtract", Num(1))>>)))>>)
\* function c(n) { let i = 0; while (i < n) { i = i + 1; if (i == 2) { return i; } }
\*                 return 100; }
FnLoop ==
    Fn("c", <<"n">>,
       <<Let("i", Num(0)),
         StmtWhile(Bin(Id("i"), "Less", Id("n")),
            StmtBlock(<<StmtExpression(ExprAssignment(<<"i">>, Bin(Id("i"), "Add", Num(1)))),
                        StmtIf(Bin(Id("i"), "Equal", Num(2)),
                               StmtBlock(<<StmtReturn(Id("i"))>>), << >>)>>)),
         StmtReturn(Num(100))>>)

\* a statement that holds s at one more level of nesting
Wraps == {"Block", "IfThen", "IfElse", "While"}
Wrap(w, s) ==
    CASE w = "Block" -> StmtBlock(<<Say(<<"i", "n">>), s, SayNo>>)
      [] w = "IfThen" -> StmtIf(ExprBoolean(TRUE), s, <<SayNo>>)
      [] w = "IfElse" -> StmtIf(ExprNil, SayNo, <<s>>)
      [] w = "While" -> StmtWhile(Num(0), StmtBlock(<<s, SayNo>>))
\* function r(p) { <return p, nested in w1 in w2>  print "no"; return 0; }
FnNested(w1, w2) ==
    Fn("r", <<"p">>, <<Wrap(w2, Wrap(w1, StmtReturn(Id("p")))), SayNo, StmtReturn(Num(0))>>)
\* function g(p) { let v = r(p); print "after"; return v + 1; }
FnCaller ==
    Fn("g", <<"p">>,
       <<Let("v", Call("r", <<Id("p")>>)),
         Say(<<"a", "f", "t", "e", "r">>),
         StmtReturn(Bin(Id("v"), "Add", Num(1)))>>)

\* the lines that declare the functions and two globals
SetupLine == <<FnSecond, FnEffects, FnFallOff, FnFail, FnFact, FnLoop,
               Let("x", Num(1)), Let("a", Num(5))>>

\* calls made from the top level, after SetupLine
CallExprs ==
    {Call("e", <<Id("x")>>), Call("n", <<Id("x")>>), Call("t", <<Num(2)>>),
     Call("c", <<Num(3)>>), Call("c", <<Num(1)>>),
     Call("f", <<Num(1), Id("a")>>), Call("f", <<Id("a"), Id("a")>>),
     Call("f", <<Num(2), Call("e", <<Id("a")>>)>>),
     Call("f", <<Num(1), Id("z")>>), Call("f", <<Id("z"), Num(1)>>),
     Call("f", <<ExprAssignment(<<"x">>, Num(8)), Id("x")>>),
     Call("b", <<Num(1)>>), Call("f", <<Num(1), Call("b", <<Num(2)>>)>>),
     Call("f", <<Num(1)>>), Call("u", << >>), Call("x", << >>)}
CallScripts ==
    {<<SetupLine, <<Let("k", c), Show(Id("k"))>>, <<Show(Id("a")), Show(Id("x"))>>>> :
        c \in CallExprs}

\* Return at every nesting, in a function called from another function
NestedScripts ==
    {<<<<FnNested(w1, w2), FnCaller, Show(Call("g", <<Num(7)>>))>>>> :
        w1 \in Wraps, w2 \in Wraps}

\* method calls on a variable
\* function w(x, b) { x = 0; return x; }
FnShadow ==
    Fn("w", <<"x", "b">>, <<StmtExpression(ExprAssignment(<<"x">>, Num(0))),
                            StmtReturn(Id("x"))>>)
ReceiverExprs ==
    {ExprDynamicArray(<< >>), ExprDynamicArray(<<Num(1)>>),
     ExprDynamicArray(<<Num(1), Str(<<"a">>)>>),
     ExprFixedArray(<< >>), ExprFixedArray(<<Num(1), Num(2)>>),
     Str(<<"a", "b">>), Num(3), ExprNil,
     ExprFunctionCall(NameObject, << >>),
     ExprMethodCall(ExprFunctionCall(NameObject, << >>), "set", Pair(Str(<<"k">>), Num(1)))}
MethodArgs ==
    {<<"push", Num(4)>>, <<"push", Id("x")>>, <<"push", Id("z")>>,
     <<"pop", ExprNil>>, <<"length", ExprNil>>, <<"clear", ExprNil>>,
     <<"insert", Pair(Num(0), Num(9))>>, <<"insert", Pair(Num(1), Id("x"))>>,
     <<"insert", Pair(Num(3), Num(9))>>, <<"insert", Pair(Id("i"), Num(9))>>,
     <<"remove", Num(0)>>, <<"remove", Num(1)>>, <<"remove", Num(5)>>,
     <<"remove", Id("i")>>, <<"reverse", ExprNil>>,
     <<"insert", Pair(Bin(Id("i"), "Add", Num(1)), Num(9))>>,
     <<"remove", Bin(Id("i"), "Add", Num(1))>>,
     <<"set", Pair(Str(<<"k">>), Num(2))>>, <<"set", Pair(Str(<<"j">>), Id("x"))>>,
     <<"get", Str(<<"k">>)>>, <<"has", Str(<<"j">>)>>, <<"keys", ExprNil>>,
     <<"toUpper", ExprNil>>, <<"trim", ExprNil>>,
     <<"push", ExprAssignment(<<"x">>, Num(0))>>,
     <<"push", Call("w", <<Num(1), Num(2)>>)>>, <<"push", Call("w", <<Num(1), Id("z")>>)>>}
MethodScripts ==
    {<<<<FnShadow, Let("i", Num(0)), Let("x", recv),
         Let("r", ExprMethodCall(Id("x"), ma[1], ma[2])),
         Show(Id("r")), Show(Id("x"))>>>> :
        recv \in ReceiverExprs, ma \in MethodArgs}

\* let r = a.push(v).pop() == v;  let n = a.push(v).length() == a.length() + 1;
PushPop ==
    Let("r", Bin(ExprMethodCall(ExprMethodCall(Id("a"), "push", Id("v")), "pop", ExprNil),
                 "Equal", Id("v")))
PushLength ==
    Let("n", Bin(ExprMethodCall(ExprMethodCall(Id("a"), "push", Id("v")), "length", ExprNil),
                 "Equal",
                 Bin(ExprMethodCall(Id("a"), "length", ExprNil), "Add", Num(1))))
DynamicExprs ==
    {ExprDynamicArray(<< >>), ExprDynamicArray(<<Num(1)>>),
     ExprDynamicArray(<<Num(1), Str(<<"a">>)>>),
     ExprDynamicArray(<<ExprDynamicArray(<<Num(2)>>), ExprNil>>)}
ElementExprs ==
    {Num(1), Num(0), Str(<<"a">>), Str(<< >>), ExprBoolean(TRUE), ExprBoolean(FALSE),
     ExprNil, ExprFixedArray(<<Num(1), Num(2)>>), ExprFixedArray(<< >>),
     ExprDynamicArray(<<Num(1)>>), ExprDynamicArray(<<ExprFixedArray(<<ExprNil>>)>>),
     ExprFunctionCall(NameObject, << >>), Id("h"),
     ExprDynamicArray(<<ExprFunctionCall(NameObject, << >>)>>)}
PushPopScripts ==
    {<<<<Fn("h", << >>, << >>), Let("a", a), Let("v", v), PushPop, PushLength>>>> :
        a \in DynamicExprs, v \in ElementExprs}

\* lines that fail at the top level, followed by a line that looks at x
Get(names, module) == StmtImport(names, module)
FailingLines ==
    {<<Let("x", Num(1)), StmtReturn(Num(5)), SayNo, Let("x", Num(2))>>,
     <<Let("x", Num(1)), StmtBlock(<<StmtIf(Id("x"), StmtReturn(Id("x")), << >>), SayNo>>),
       SayNo>>,
     <<Let("x", Num(1)), StmtWhile(ExprBoolean(TRUE), StmtReturn(Num(2))), SayNo>>,
     <<Let("x", Num(1)), Show(Bin(Id("x"), "Add", ExprNil)), SayNo, Let("x", Num(2))>>,
     <<Let("x", Num(1)), Show(Id("z")), SayNo>>,
     <<Let("x", Num(1)), StmtExpression(ExprAssignment(<<"x">>,
            Bin(ExprAssignment(<<"x">>, Num(3)), "Divide", Num(0)))), SayNo>>,
     <<Let("x", Num(1)), StmtPrint(Num(1), <<Num(2)>>), SayNo>>,
     <<Let("x", Num(1)), Get(<<Txt1("A")>>, <<"e", "a", "r", "l", "y">>), Show(Id("A"))>>,
     <<Let("x", Num(1)), Get(<<<<"P", "i">>, <<"T", "w", "i", "c", "e">>>>,
                             <<"m", "a", "t", "h">>),
       Show(ExprFunctionCall(<<"T", "w", "i", "c", "e">>, <<ExprIdentifier(<<"P", "i">>)>>))>>,
     <<Let("x", Num(1)), Get(<<<<"P", "i">>, <<"s", "e", "c", "r", "e", "t">>>>,
                             <<"m", "a", "t", "h">> \o DotPg), SayNo>>,
     <<Let("x", Num(1)), Get(<<Txt1("U"), Txt1("V")>>, <<"u", "t", "i", "l">>), SayNo>>,
     <<Let("x", Num(1)), Get(<<Txt1("X")>>, <<"b", "a", "d">>), SayNo>>,
     <<Let("x", Num(1)), Get(<<Txt1("X")>>, <<"n", "o", "p", "e">>), SayNo>>,
     <<Let("s", ExprFunctionCall(NameReadline, << >>)),
       StmtExpression(ExprFunctionCall(NamePrintErr, <<Id("s")>>)),
       StmtPrint(Str(<<"{", "}", "-", "{", "}">>), <<Id("s")>>),
       Let("x", ExprMethodCall(Id("s"), "replaceChar", ExprTransform(<<"h">>, <<"s">>)))>>}
TopLevelScripts ==
    {<<line, <<Show(Id("x"))>>>> : line \in FailingLines}

\* indexing: print <array>[<index>]; for arrays of both flavors, indices
\* inside, at and beyond the length, and operands of other kinds
IndexedExprs ==
    {ExprFixedArray(<< >>), ExprFixedArray(<<Num(7)>>),
     ExprFixedArray(<<Num(7), Str(<<"a">>), ExprNil>>),
     ExprDynamicArray(<< >>), ExprDynamicArray(<<Str(<<"b">>), Num(8)>>),
     ExprDynamicArray(<<ExprFixedArray(<<Num(1)>>), Num(8), ExprBoolean(TRUE)>>),
     Str(<<"a", "b">>), Num(3), ExprNil, ExprFunctionCall(NameObject, << >>)}
IndexExprs ==
    {Num(0), Num(1), Num(2), Num(3), Num(4), Id("i"), Bin(Id("i"), "Add", Num(1)),
     ExprUnary(Num(1)), Str(<<"0">>), ExprBoolean(TRUE), ExprNil,
     ExprFixedArray(<<Num(0)>>)}
IndexScripts ==
    {<<<<Let("i", Num(1)), Let("a", a), Show(ExprIndex(Id("a"), i)), SayNo>>>> :
        a \in IndexedExprs, i \in IndexExprs}

\* objects: o.set(k, v) looked at with get and has, at k and at another key j
SetKV == ExprMethodCall(Id("o"), "set", Pair(Id("k"), Id("v")))
SetGet == Let("g", ExprMethodCall(SetKV, "get", Id("k")))
SetHas == Let("h", ExprMethodCall(SetKV, "has", Id("k")))
SetGetOther == Let("p", ExprMethodCall(SetKV, "get", Id("j")))
SetHasOther == Let("s", ExprMethodCall(SetKV, "has", Id("j")))
GetOther == Let("q", ExprMethodCall(Id("o"), "get", Id("j")))
HasOther == Let("t", ExprMethodCall(Id("o"), "has", Id("j")))
NewObject == Let("e", ExprFunctionCall(NameObject, << >>))
NewKeys == Let("n", ExprMethodCall(ExprFunctionCall(NameObject, << >>), "keys", ExprNil))
ObjectStmts == {SetGet, SetHas, SetGetOther, SetHasOther, GetOther, HasOther,
                NewObject, NewKeys}
ObjectExprs ==
    {ExprFunctionCall(NameObject, << >>),
     ExprMethodCall(ExprFunctionCall(NameObject, << >>), "set", Pair(Str(<<"k">>), Num(1))),
     ExprMethodCall(ExprMethodCall(ExprFunctionCall(NameObject, << >>), "set",
                                   Pair(Str(<<"k">>), ExprNil)),
                    "set", Pair(Str(<<"j">>), Str(<<"k">>)))}
KeyExprs == {Str(<<"k">>), Str(<<"j">>), Str(<< >>)}
ValueExprs ==
    {Num(2), Str(<<"k">>), ExprBoolean(FALSE), ExprNil, ExprDynamicArray(<<Num(1)>>),
     ExprFunctionCall(NameObject, << >>), Id("o")}
ObjectScripts ==
    {<<<<Let("o", o), Let("k", k), Let("j", j), Let("v", v), SetGet, SetHas,
         SetGetOther, SetHasOther, GetOther, HasOther, NewObject, NewKeys>>>> :
        o \in ObjectExprs, k \in KeyExprs, j \in KeyExprs, v \in ValueExprs}

\* replaceChar: let s = <receiver>; let a = <value>; let r = s.replaceChar(`x -> y`);
\* the names a and s are bound, b and c are not
Replace(from, to) ==
    Let("r", ExprMethodCall(Id("s"), "replaceChar", ExprTransform(from, to)))
Sides == {<<"a">>, <<"b">>, <<"s">>, <<"a", "b">>}
ReplacedExprs ==
    {Str(<<"a", "b", "a", "b">>), Str(<<"a", "1", "b", "a">>), Str(<< >>), Str(<<"b">>),
     Num(1), ExprFixedArray(<<Str(<<"a">>)>>), ExprNil}
BoundExprs ==
    {Str(<<"b">>), Str(<<"c", "c">>), Str(<< >>), Num(1), ExprBoolean(TRUE), ExprNil,
     ExprDynamicArray(<<Num(1)>>), ExprFunctionCall(NameObject, << >>)}
ReplaceScripts ==
    {<<<<Let("s", recv), Let("a", a), Replace(from, to), Show(Id("r"))>>>> :
        recv \in ReplacedExprs, a \in BoundExprs, from \in Sides, to \in Sides}

\* binary operations: print <l> <op> <r>; with the operator at line 2, column 5
Operators == {"Add", "Subtract", "Multiply", "Divide", "Equal", "NotEqual",
              "Greater", "GreaterEqual", "Less", "LessEqual"}
OperandExprs ==
    {Num(0), Num(6), Num(3), Str(<<"h", "i">>), Str(<<"7">>), ExprBoolean(TRUE),
     ExprBoolean(FALSE), ExprNil, ExprFixedArray(<<Num(1)>>), ExprDynamicArray(<<Num(1)>>),
     ExprFunctionCall(NameObject, << >>), Id("h")}
BinaryScripts ==
    {<<<<Fn("h", << >>, << >>), Let("s", ExprBinary(l, op, r, 2, 5)), Show(Id("s"))>>>> :
        l \in OperandExprs, r \in OperandExprs, op \in Operators}

\* equality: three values compared with == and != in both orders
Eq(c, l, op, r) == Let(c, Bin(Id(l), op, Id(r)))
EqualityStmts ==
    <<Eq("p", "x", "Equal", "x"), Eq("q", "x", "Equal", "y"), Eq("r", "y", "Equal", "x"),
      Eq("s", "y", "Equal", "z"), Eq("t", "x", "Equal", "z"), Eq("u", "x", "NotEqual", "y"),
      Eq("v", "x", "NotEqual", "x")>>
ComparedExprs ==
    {Num(0), Num(1), Str(<<"1">>), Str(<< >>), ExprBoolean(TRUE), ExprNil,
     ExprFixedArray(<<Num(1)>>), ExprDynamicArray(<<Num(1)>>), ExprFixedArray(<< >>),
     ExprDynamicArray(<<ExprFixedArray(<<Num(1)>>)>>),
     ExprFunctionCall(NameObject, << >>), Id("h"),
     ExprFixedArray(<<ExprFunctionCall(NameObject, << >>)>>)}
EqualityScripts ==
    {<<<<Fn("h", << >>, << >>), Let("x", x), Let("y", y), Let("z", z)>> \o EqualityStmts>> :
        x \in ComparedExprs, y \in ComparedExprs, z \in ComparedExprs}

\* print with arguments: let f = <format>; let a = ..; let b = ..; print f, a, b, a;
PrintArgs == <<Id("a"), Id("b"), Id("a")>>
PrintWith(n) == StmtPrint(Id("f"), SubSeq(PrintArgs, 1, n))
FormatExprs ==
    {Str(<<"{", "}">>), Str(<<"{", "}", "-", "{", "}">>), Str(<<"{", "{", "}", "}">>),
     Str(<<"{", "}", "{", "}", "{", "}", "{", "}">>), Str(<<"a", "{", "}">>),
     Str(<<"{", " ", "}">>), Str(<<"}", "{">>), Str(<< >>), Str(<<"n", "o">>),
     Str(<<"{", "}", " ", "{">>), Num(1), ExprNil, ExprFixedArray(<<Str(<<"{", "}">>)>>)}
FirstArgExprs == {Str(<<"{", "}">>), Str(<<"x">>), Str(<<"{">>), Num(1), ExprNil}
SecondArgExprs == {Str(<<"}">>), Str(<<"{", "}">>), ExprBoolean(TRUE),
                   ExprFixedArray(<<Num(1), Str(<<"y">>)>>)}
PrintScripts ==
    {<<<<Let("f", f), Let("a", a), Let("b", b), PrintWith(n)>>>> :
        f \in FormatExprs, a \in FirstArgExprs, b \in SecondArgExprs, n \in 1..3}

\* imports: <prelude>; get {<names>} from <module>;  and, on the next line,
\* a use of what was imported.  The names are lists of up to MaxNames names,
\* exportable or not, defined by the module or not
MaxNames == 3
NamePi == <<"P", "i">>
NameSecret == <<"s", "e", "c", "r", "e", "t">>
NameTwice == <<"T", "w", "i", "c", "e">>
NameNope == <<"N", "o", "p", "e">>
NameLists(pool, n) == UNION {[1..k -> pool] : k \in 1..n}
MathNames == {NamePi, NameSecret, NameTwice, NameNope, NameRate}
HelperNames == {NameRate, NameHid, NameScale, NameDouble, NameRated, NameTwo}
MathPreludes ==
    {<<Let("x", Num(1))>>,
     <<StmtVarDeclaration(NamePi, <<Num(0)>>), StmtVarDeclaration(NameSecret, <<Num(0)>>)>>}
HelperPreludes ==
    {<<Let("x", Num(1))>>,
     <<StmtVarDeclaration(NameRate, <<Num(5)>>)>>,
     <<StmtFunctionDeclaration(NameScale, <<Txt1("n")>>,
          StmtBlock(<<StmtReturn(Bin(Id("n"), "Add", Num(1)))>>))>>}
HelperUses ==
    {<<Show(ExprFunctionCall(NameDouble, <<Num(3)>>))>>,
     <<Show(ExprFunctionCall(NameRated, <<Num(3)>>))>>,
     <<Show(ExprIdentifier(NameTwo))>>}
ImportScripts ==
    {<<prelude \o <<Get(names, <<"m", "a", "t", "h">>)>>, <<Show(Id("x"))>>>> :
        prelude \in MathPreludes, names \in NameLists(MathNames, MaxNames)}
    \cup {<<prelude \o <<Get(names, <<"h", "e", "l", "p", "e", "r">>)>>, use>> :
             prelude \in HelperPreludes, names \in NameLists(HelperNames, MaxNames - 1),
             use \in HelperUses}
    \cup {<<prelude \o <<Get(names, <<"h", "e", "l", "p", "e", "r">>)>> \o use>> :
             prelude \in HelperPreludes, names \in NameLists(HelperNames, MaxNames - 1),
             use \in HelperUses}

\* scopes: let a = 0; <statement around { let b = u; a = t; c = t; }>;
\* print a; print b;  with the inner statements in a block, a nested block,
\* the branches of an if, a branch without braces and the body of a while
MaxScopeValue == 2
Assign(c, e) == StmtExpression(ExprAssignment(<<c>>, e))
Inner(u, t) == <<Let("b", Num(u)), Assign("a", Num(t)), Assign("c", Num(t))>>
Wrappers == {"block", "nested", "then", "else", "bare", "while"}
Wrapped(w, u, t) ==
    CASE w = "block" -> StmtBlock(Inner(u, t))
      [] w = "nested" -> StmtBlock(<<StmtBlock(<<Let("b", Num(u))>>),
                                     StmtBlock(<<StmtBlock(Tail(Inner(u, t)))>>)>>)
      [] w = "then" -> StmtIf(ExprBoolean(TRUE), StmtBlock(Inner(u, t)), << >>)
      [] w = "else" -> StmtIf(ExprBoolean(FALSE), StmtBlock(<<Let("d", Num(9))>>),
                              <<StmtBlock(Inner(u, t))>>)
      [] w = "bare" -> StmtIf(ExprBoolean(TRUE), StmtIf(ExprBoolean(TRUE), Let("b", Num(u)), << >>),
                              << >>)
      [] w = "while" -> StmtWhile(Bin(Id("a"), "NotEqual", Num(t)), StmtBlock(Inner(u, t)))
ScopeProgram(w, u, t) == <<Let("a", Num(0)), Wrapped(w, u, t), Show(Id("a")), Show(Id("b"))>>
ScopeScripts ==
    {<<ScopeProgram(w, u, t)>> : w \in Wrappers, u \in 1..MaxScopeValue,
                                 t \in 1..MaxScopeValue}

Scripts == CallScripts \cup NestedScripts \cup MethodScripts \cup PushPopScripts
           \cup TopLevelScripts \cup IndexScripts \cup ObjectScripts
           \cup ReplaceScripts \cup BinaryScripts \cup EqualityScripts
           \cup PrintScripts \cup ImportScripts \cup ScopeScripts

\* ------------------------------------------------------------------------
\* Inputs: the source texts fed to run_with_interpreter, as the sequences of
\* their characters.
\* ------------------------------------------------------------------------
\* let s = "a,b,c"; print s.replaceChar(`, -> ;`);
PunctuationSource ==
    <<"l", "e", "t", " ", "s", " ", "=", " ", "\"", "a", ",", "b", ",", "c", "\"", ";",
      " ", "p", "r", "i", "n", "t", " ", "s", ".", "r", "e", "p", "l", "a", "c", "e",
      "C", "h", "a", "r", "(", Backquote, ",", " ", "-", ">", " ", ";", Backquote, ")",
      ";">>
\* let s = "a,b,c"; print s.replaceChar`, -> ;`;
BarePunctuationSource ==
    <<"l", "e", "t", " ", "s", " ", "=", " ", "\"", "a", ",", "b", ",", "c", "\"", ";",
      " ", "p", "r", "i", "n", "t", " ", "s", ".", "r", "e", "p", "l", "a", "c", "e",
      "C", "h", "a", "r", Backquote, ",", " ", "-", ">", " ", ";", Backquote, ";">>
\* let s = "a,b,c"; let c = ","; let d = ";"; print s.replaceChar`c -> d`;
BoundSidesSource ==
    <<"l", "e", "t", " ", "s", " ", "=", " ", "\"", "a", ",", "b", ",", "c", "\"", ";",
      " ", "l", "e", "t", " ", "c", " ", "=", " ", "\"", ",", "\"", ";", " ", "l", "e",
      "t", " ", "d", " ", "=", " ", "\"", ";", "\"", ";", " ", "p", "r", "i", "n", "t",
      " ", "s", ".", "r", "e", "p", "l", "a", "c", "e", "C", "h", "a", "r", Backquote,
      "c", " ", "-", ">", " ", "d", Backquote, ";">>
\* let s = "a,b,c"; let c = ","; let d = ";"; print s.replaceChar`{c} -> {d}`;
BracedSidesSource ==
    <<"l", "e", "t", " ", "s", " ", "=", " ", "\"", "a", ",", "b", ",", "c", "\"", ";",
      " ", "l", "e", "t", " ", "c", " ", "=", " ", "\"", ",", "\"", ";", " ", "l", "e",
      "t", " ", "d", " ", "=", " ", "\"", ";", "\"", ";", " ", "p", "r", "i", "n", "t",
      " ", "s", ".", "r", "e", "p", "l", "a", "c", "e", "C", "h", "a", "r", Backquote,
      "{", "c", "}", " ", "-", ">", " ", "{", "d", "}", Backquote, ";">>
\* let s = "a,b,c"; print s.replaceChar(`a -> b`);
ParenthesizedSource ==
    <<"l", "e", "t", " ", "s", " ", "=", " ", "\"", "a", ",", "b", ",", "c", "\"", ";",
      " ", "p", "r", "i", "n", "t", " ", "s", ".", "r", "e", "p", "l", "a", "c", "e",
      "C", "h", "a", "r", "(", Backquote, "a", " ", "-", ">", " ", "b", Backquote, ")",
      ";">>
ReplaceSources ==
    {PunctuationSource, BarePunctuationSource, BoundSidesSource, BracedSidesSource,
     ParenthesizedSource}

\* print <digit> <operator> <digit>;
MaxDigit == 3
DigitChars == {Digits[d + 1] : d \in 0..MaxDigit}
OperatorTexts == {<<"+">>, <<"-">>, <<"*">>, <<"=", "=">>, <<"!", "=">>, <<"<">>, <<">", "=">>}
PrintSource(a, operator, b) ==
    <<"p", "r", "i", "n", "t", " ", a, " ">> \o operator \o <<" ", b, ";">>
PrintSources ==
    {PrintSource(a, operator, b) : a \in DigitChars, operator \in OperatorTexts,
                                   b \in DigitChars}

\* two lines at the prompt: let x = <digit>; and then print x;
LetSource(a) == <<"l", "e", "t", " ", "x", " ", "=", " ", a, ";", "\n">>
PrintXSource == <<"p", "r", "i", "n", "t", " ", "x", ";", "\n">>
\* lines the lexer or the parser rejects
RejectedSources ==
    {<<"p", "r", "i", "n", "t", " ", "\"", "a", ";">>,
     <<"p", "r", "i", "n", "t", " ", "1", " ", "?", ";">>,
     <<"p", "r", "i", "n", "t", " ", "1">>,
     <<"1", " ", "=", " ", "2", ";">>}
\* print 1 <operator> 2 <operator> 3;
PrecedenceSource(first, second) ==
    <<"p", "r", "i", "n", "t", " ", "1", " ">> \o first \o <<" ", "2", " ">> \o second
        \o <<" ", "3", ";">>
\* print -1 <operator> 2;
NegatedSource(operator) ==
    <<"p", "r", "i", "n", "t", " ", "-", "1", " ">> \o operator \o <<" ", "2", ";">>
\* print 8 - 3 - 2;
SubtractSource == <<"p", "r", "i", "n", "t", " ", "8", " ", "-", " ", "3", " ", "-", " ", "2", ";">>
\* print a == b < c;
EqualLessSource ==
    <<"p", "r", "i", "n", "t", " ", "a", " ", "=", "=", " ", "b", " ", "<", " ", "c", ";">>
\* print -a * b;
MinusTimesSource == <<"p", "r", "i", "n", "t", " ", "-", "a", " ", "*", " ", "b", ";">>
\* a = b = 1;
AssignTwiceSource == <<"a", " ", "=", " ", "b", " ", "=", " ", "1", ";">>
\* a = 1 == 2;
AssignEqualSource == <<"a", " ", "=", " ", "1", " ", "=", "=", " ", "2", ";">>
\* assignments to what is no identifier:  1 = 2;  a + 1 = 2;  -a = 2;
TargetSources ==
    {<<"1", " ", "=", " ", "2", ";">>,
     <<"a", " ", "+", " ", "1", " ", "=", " ", "2", ";">>,
     <<"-", "a", " ", "=", " ", "2", ";">>}
PrecedenceSources ==
    {PrecedenceSource(first, second) : first \in OperatorTexts, second \in OperatorTexts}
    \cup {NegatedSource(operator) : operator \in OperatorTexts}
    \cup {SubtractSource, EqualLessSource, MinusTimesSource, AssignTwiceSource,
          AssignEqualSource}
    \cup TargetSources

\* method calls with two arguments and with one argument
\* let a = {1, 2}; a.insert(0, 9); print a;
InsertSource ==
        <<"l", "e", "t", " ", "a", " ", "=", " ", "{", "1", ",", " ", "2", "}", ";", " ",
      "a", ".", "i", "n", "s", "e", "r", "t", "(", "0", ",", " ", "9", ")", ";", " ",
      "p", "r", "i", "n", "t", " ", "a", ";">>
\* let o = Object(); o.set("k", 1 + 2); print o.get("k");
SetSource ==
        <<"l", "e", "t", " ", "o", " ", "=", " ", "O", "b", "j", "e", "c", "t", "(", ")",
      ";", " ", "o", ".", "s", "e", "t", "(", "\"", "k", "\"", ",", " ", "1", " ", "+",
      " ", "2", ")", ";", " ", "p", "r", "i", "n", "t", " ", "o", ".", "g", "e", "t",
      "(", "\"", "k", "\"", ")", ";">>
\* let a = {1}; a.push(2 * 3 - 1); print a[0 + 1];
PushSource ==
        <<"l", "e", "t", " ", "a", " ", "=", " ", "{", "1", "}", ";", " ", "a", ".", "p",
      "u", "s", "h", "(", "2", " ", "*", " ", "3", " ", "-", " ", "1", ")", ";", " ",
      "p", "r", "i", "n", "t", " ", "a", "[", "0", " ", "+", " ", "1", "]", ";">>
MethodSources == {InsertSource, SetSource, PushSource}

\* sources that end where the parser expects more, and sources without a
\* statement
EndingSources ==
    {<<"(">>,
     <<"l", "e", "t", " ", "x", " ", "=", " ", "[">>,
     <<"p", "r", "i", "n", "t", " ", "{">>,
     <<"f", "(">>,
     <<"(", "\n">>,
     <<"p", "r", "i", "n", "t">>,
     <<"p", "r", "i", "n", "t", " ", "-">>,
     <<"p", "r", "i", "n", "t", " ", "1", " ", "+">>,
     <<"l", "e", "t">>,
     << >>,
     <<"\n">>}
\* sources with a string that is opened and not closed before the end, with
\* line ends after the opening quote
UnterminatedSources ==
    {<<"p", "r", "i", "n", "t", " ", "\"", "a", ";", "\n">>,
     <<"l", "e", "t", " ", "x", " ", "=", " ", "1", ";", "\n",
       "p", "r", "i", "n", "t", " ", "\"", "a", ";", "\n", "\n">>}

SourceScripts ==
    {<<text>> : text \in ReplaceSources \cup PrintSources \cup MethodSources
                        \cup PrecedenceSources}
    \cup {<<LetSource(a), PrintXSource>> : a \in DigitChars}
    \cup {<<text, PrintXSource>> : text \in RejectedSources \cup UnterminatedSources}
    \cup {<<text, PrintXSource>> : text \in EndingSources}

\* module loading: let x = 1; get {<names>} from <module>; print x;  for the
\* modules that import each other (ping, pong), itself (self), another module
\* without a cycle (chain), and for modules that import nothing
LoadModules ==
    {NamePing, NamePong, NameSelf, NameChain, <<"m", "a", "t", "h">>, <<"u", "t", "i", "l">>,
     <<"e", "a", "r", "l", "y">>, <<"b", "a", "d">>, <<"n", "o", "p", "e">>}
LoadNames == {Txt1("P"), Txt1("Q"), Txt1("S"), Txt1("C"), <<"P", "i">>, Txt1("U"), Txt1("x")}
LoadScripts ==
    {<<<<Let("x", Num(1)), Get(<<name>>, module), Show(Id("x"))>>>> :
        name \in LoadNames, module \in LoadModules}

\* ------------------------------------------------------------------------
\* The driver (run_prompt / run_with_interpreter) and Interpreter::interpret
\*   script  : the lines not yet read: programs under Spec, source texts
\*             under SourceSpec
\*   source  : the source text handed to run_with_interpreter last
\*   loads   : under LoadSpec, the calls of load_module in progress, the
\*             innermost last, each with its module interpreter
\*   program : the program being interpreted, pc the index of its next
\*             top-level statement
\*   status  : "idle" before the first line and after interpret returned
\*             Ok, "running" inside interpret, "failed" after it returned Err
\*   diag    : the diagnostic interpret returned
\* ------------------------------------------------------------------------
VARIABLES script, source, program, pc, status, diag, globals, out, errout, stdin, trace,
          loads

vars == <<script, source, program, pc, status, diag, globals, out, errout, stdin, trace,
          loads>>

Init ==
    /\ script \in Scripts
    /\ source = << >>
    /\ loads = << >>
    /\ program = << >>
    /\ pc = 1
    /\ status = "idle"
    /\ diag = << >>
    /\ globals = << >>
    /\ out = << >>
    /\ errout = << >>
    /\ stdin = <<<<"h", "i", "\r", "\n">>>>
    /\ trace = << >>

\* the prompt reads the next line and hands its program to interpret, with
\* the interpreter it has kept
NextLine ==
    /\ status # "running"
    /\ script # << >>
    /\ program' = Head(script)
    /\ script' = Tail(script)
    /\ pc' = 1
    /\ status' = "running"
    /\ diag' = << >>
    /\ trace' = << >>
    /\ UNCHANGED <<source, globals, out, errout, stdin, loads>>

\* what interpret does with the result r of a top-level statement
Interpreted(r) ==
    /\ ~r.m.oob
    /\ globals' = r.m.globals
    /\ out' = r.m.out
    /\ errout' = r.m.errout
    /\ stdin' = r.m.stdin
    /\ trace' = r.m.trace
    /\ IF ~r.ok
       THEN status' = "failed" /\ diag' = r.err /\ pc' = pc
       ELSE IF r.cf.t = "Return"
       THEN /\ status' = "failed"
            /\ diag' = <<"Return statement not allowed outside function">>
            /\ pc' = pc
       ELSE status' = "running" /\ diag' = diag /\ pc' = pc + 1

InterpretedIgnoringReturn(r) ==
    /\ ~r.m.oob
    /\ globals' = r.m.globals
    /\ out' = r.m.out
    /\ errout' = r.m.errout
    /\ stdin' = r.m.stdin
    /\ trace' = r.m.trace
    /\ IF ~r.ok
       THEN status' = "failed" /\ diag' = r.err /\ pc' = pc
       ELSE status' = "running" /\ diag' = diag /\ pc' = pc + 1

InterpretedGoingOn(r) ==
    /\ ~r.m.oob
    /\ globals' = r.m.globals
    /\ out' = r.m.out
    /\ errout' = r.m.errout
    /\ stdin' = r.m.stdin
    /\ trace' = r.m.trace
    /\ IF ~r.ok
       THEN status' = "running" /\ diag' = r.err /\ pc' = pc + 1
       ELSE IF r.cf.t = "Return"
       THEN /\ status' = "failed"
            /\ diag' = <<"Return statement not allowed outside function">>
            /\ pc' = pc
       ELSE status' = "running" /\ diag' = diag /\ pc' = pc + 1

\* an interpret loop that treats a Return signal like None
ExecTopIgnoresReturn ==
    /\ status = "running"
    /\ pc <= Len(program)
    /\ InterpretedIgnoringReturn(ExecStmt(Machine(globals, out, errout, stdin), program[pc], 0))
    /\ UNCHANGED <<script, source, program, loads>>

\* an interpret loop that notes the diagnostic of a failed statement and
\* goes on with the next statement
ExecTopGoesOn ==
    /\ status = "running"
    /\ pc <= Len(program)
    /\ InterpretedGoingOn(ExecStmt(Machine(globals, out, errout, stdin), program[pc], 0))
    /\ UNCHANGED <<script, source, program, loads>>

\* one iteration of `for statement in program.statements`
ExecTop ==
    /\ status = "running"
    /\ pc <= Len(program)
    /\ Interpreted(ExecStmt(Machine(globals, out, errout, stdin), program[pc], 0))
    /\ UNCHANGED <<script, source, program, loads>>

\* the loop is over: interpret returns Ok(())
Finish ==
    /\ status = "running"
    /\ pc > Len(program)
    /\ status' = "idle"
    /\ UNCHANGED <<script, source, program, pc, diag, globals, out, errout, stdin, trace,
                   loads>>

Next == NextLine \/ ExecTop \/ Finish

Spec == Init /\ [][Next]_vars

\* run_with_interpreter on a source text: tokenize, parse, interpret.  A
\* panic of the lexer ends the process, and so does a recursion of the parser
\* that does not return; a diagnostic of the parser is returned to the
\* prompt, which goes on with the next line
SourceInit ==
    /\ script \in SourceScripts
    /\ source = << >>
    /\ loads = << >>
    /\ program = << >>
    /\ pc = 1
    /\ status = "idle"
    /\ diag = << >>
    /\ globals = << >>
    /\ out = << >>
    /\ errout = << >>
    /\ stdin = << >>
    /\ trace = << >>

\* what run_with_interpreter does with the result of parse
ParsedSource(parsed) ==
    IF parsed.ok
    THEN program' = parsed.node /\ status' = "running" /\ diag' = << >>
    ELSE IF parsed.err = StackOverflow
    THEN program' = << >> /\ status' = "overflowed" /\ diag' = parsed.err
    ELSE program' = << >> /\ status' = "failed" /\ diag' = parsed.err

\* what run_with_interpreter does with the result of tokenize
Tokenized(lexed) ==
    /\ ~lexed.oob
    /\ IF lexed.ok
       THEN ParsedSource(parse(lexed.tokens))
       ELSE program' = << >> /\ status' = "panicked" /\ diag' = lexed.panic

RunSource ==
    /\ status \notin {"running", "panicked", "overflowed"}
    /\ script # << >>
    /\ source' = Head(script)
    /\ script' = Tail(script)
    /\ pc' = 1
    /\ trace' = << >>
    /\ Tokenized(tokenize(Head(script)))
    /\ UNCHANGED <<globals, out, errout, stdin, loads>>

SourceNext == RunSource \/ ExecTop \/ Finish

SourceSpec == SourceInit /\ [][SourceNext]_vars

\* ------------------------------------------------------------------------
\* load_module step by step.  Each call of load_module in progress is a
\* record of loads: the module file, the names asked for, the module
\* interpreter's globals and the index pc of the next top-level statement of
\* the module.  An import among the top-level statements of a module enters
\* load_module again; the other statements are run whole.
\* ------------------------------------------------------------------------
MaxLoads == 4

LoadInit ==
    /\ script \in LoadScripts
    /\ source = << >>
    /\ loads = << >>
    /\ program = << >>
    /\ pc = 1
    /\ status = "idle"
    /\ diag = << >>
    /\ globals = << >>
    /\ out = << >>
    /\ errout = << >>
    /\ stdin = << >>
    /\ trace = << >>

FullPath(module_path) ==
    IF EndsWith(module_path, DotPg) THEN module_path ELSE module_path \o DotPg
\* the file load_module reads: full_path if it exists, else examples/full_path
ModuleFile(module_path) ==
    IF FullPath(module_path) \in DOMAIN Files THEN FullPath(module_path)
    ELSE ExamplesDir \o FullPath(module_path)
Load(module_file, names) ==
    [file |-> module_file, names |-> names, globals |-> << >>, pc |-> 1]
Loading == loads[Len(loads)]
\* the statement the innermost interpreter is at
Current ==
    IF loads = << >> THEN program[pc] ELSE Files[Loading.file].statements[Loading.pc]
AtStatement ==
    /\ status = "running"
    /\ IF loads = << >> THEN pc <= Len(program)
       ELSE Loading.pc <= Len(Files[Loading.file].statements)

\* an Err returned by load_module: every caller hands it on with ?, up to
\* interpret
Failing(err) ==
    /\ status' = "failed"
    /\ diag' = err
    /\ loads' = << >>

\* a load that refuses a file that is being loaded already
EnteredOnce(names, module_path) ==
    /\ IF ModuleFile(module_path) \notin DOMAIN Files
       THEN Failing(<<"Module not found. Tried", module_path, FullPath(module_path),
                      ExamplesDir \o FullPath(module_path)>>)
       ELSE IF ~Files[ModuleFile(module_path)].readable
       THEN Failing(<<"Failed to read module", ModuleFile(module_path)>>)
       ELSE IF ~Files[ModuleFile(module_path)].parses
       THEN Failing(<<"Failed to parse module", ModuleFile(module_path)>>)
       ELSE IF \E i \in DOMAIN loads : loads[i].file = ModuleFile(module_path)
       THEN Failing(<<"Circular import", ModuleFile(module_path)>>)
       ELSE /\ loads' = Append(loads, Load(ModuleFile(module_path), names))
            /\ UNCHANGED <<status, diag>>
    /\ UNCHANGED <<script, source, program, pc, globals, out, errout, stdin, trace>>

\* load_module up to the fresh module interpreter
Entered(names, module_path) ==
    /\ IF ModuleFile(module_path) \notin DOMAIN Files
       THEN Failing(<<"Module not found. Tried", module_path, FullPath(module_path),
                      ExamplesDir \o FullPath(module_path)>>)
       ELSE IF ~Files[ModuleFile(module_path)].readable
       THEN Failing(<<"Failed to read module", ModuleFile(module_path)>>)
       ELSE IF ~Files[ModuleFile(module_path)].parses
       THEN Failing(<<"Failed to parse module", ModuleFile(module_path)>>)
       ELSE /\ loads' = Append(loads, Load(ModuleFile(module_path), names))
            /\ UNCHANGED <<status, diag>>
    /\ UNCHANGED <<script, source, program, pc, globals, out, errout, stdin, trace>>

\* the innermost interpreter is at an import: load_module is entered
EnterModule ==
    /\ AtStatement
    /\ Current.k = "Import"
    /\ Len(loads) < MaxLoads
    /\ Entered(Current.names, Current.module)

\* what the loop over the module's statements does with the result r of one
Stepped(r) ==
    /\ ~r.m.oob
    /\ out' = r.m.out
    /\ errout' = r.m.errout
    /\ stdin' = r.m.stdin
    /\ trace' = r.m.trace
    /\ IF ~r.ok THEN Failing(r.err)
       ELSE IF r.cf.t = "Return"
       THEN Failing(<<"Return statement not allowed at module level">>)
       ELSE /\ loads' = [loads EXCEPT ![Len(loads)].globals = r.m.globals,
                                       ![Len(loads)].pc = @ + 1]
            /\ UNCHANGED <<status, diag>>
    /\ UNCHANGED <<script, source, program, pc, globals>>

\* the module interpreter runs a top-level statement that is no import
ModuleStep ==
    /\ AtStatement
    /\ loads # << >>
    /\ Current.k # "Import"
    /\ Stepped(ExecStmt([Machine(Loading.globals, out, errout, stdin)
                            EXCEPT !.imports = Len(loads)], Current, 0))

\* the globals of the interpreter that called the innermost load_module
CallerGlobals == IF Len(loads) = 1 THEN globals ELSE loads[Len(loads) - 1].globals

\* the end of load_module: imported is the result of the loop over the names
Returned(imported) ==
    /\ IF Len(loads) = 1
       THEN /\ globals' = imported.globals
            /\ IF imported.ok THEN loads' = << >> /\ pc' = pc + 1 /\ UNCHANGED <<status, diag>>
               ELSE Failing(imported.err) /\ pc' = pc
       ELSE /\ UNCHANGED <<globals, pc>>
            /\ IF imported.ok
               THEN /\ loads' = [SubSeq(loads, 1, Len(loads) - 1)
                                   EXCEPT ![Len(loads) - 1].globals = imported.globals,
                                          ![Len(loads) - 1].pc = @ + 1]
                    /\ UNCHANGED <<status, diag>>
               ELSE Failing(imported.err)
    /\ UNCHANGED <<script, source, program, out, errout, stdin, trace>>

\* the module's statements are done: the names are copied to the caller
CopyNames ==
    /\ status = "running"
    /\ loads # << >>
    /\ Loading.pc > Len(Files[Loading.file].statements)
    /\ Returned(ImportNames(CallerGlobals, Loading.globals, Loading.names, Loading.file))

\* a top-level statement of the program that is no import
ExecTopPlain ==
    /\ loads = << >>
    /\ status = "running"
    /\ pc <= Len(program)
    /\ program[pc].k # "Import"
    /\ ExecTop

LoadNext == NextLine \/ ExecTopPlain \/ EnterModule \/ ModuleStep \/ CopyNames \/ Finish

LoadSpec == LoadInit /\ [][LoadNext]_vars

\* ------------------------------------------------------------------------
\* Properties
\* ------------------------------------------------------------------------
Exits == {i \in DOMAIN trace : trace[i].ev = "exit"}
Returns == {i \in DOMAIN trace : trace[i].ev = "ret"}
MethodCalls == {i \in DOMAIN trace : trace[i].ev = "method"}
Arrays == {"FixedArray", "DynamicArray"}
True == BooleanV(TRUE)

\* does e, or an expression inside e, have one of these kinds
RECURSIVE Mentions(_, _)
Mentions(e, kinds) ==
    \/ e.k \in kinds
    \/ CASE e.k \in Arrays -> \E i \in 1..Len(e.elements) : Mentions(e.elements[i], kinds)
         [] e.k = "Index" -> Mentions(e.array, kinds) \/ Mentions(e.index, kinds)
         [] e.k = "Binary" -> Mentions(e.left, kinds) \/ Mentions(e.right, kinds)
         [] e.k = "Unary" -> Mentions(e.operand, kinds)
         [] e.k = "Assignment" -> Mentions(e.value, kinds)
         [] e.k = "MethodCall" -> Mentions(e.object, kinds) \/ Mentions(e.argument, kinds)
         [] e.k = "FunctionCall" ->
                \E i \in 1..Len(e.arguments) : Mentions(e.arguments[i], kinds)
         [] OTHER -> FALSE

\* C1: when a user function call returns normally, by a Return or by falling
\* off the end of its body, the global table is the table from just before
\* the call; this holds for every call of the evaluation, nested and recursive
\* ones included.
C1_CallLeavesGlobals ==
    \A i \in Exits :
        trace[i].how \in {"Return", "None"} => trace[i].post = trace[i].pre

\* a call of e(p), whose body declares x and h and assigns y and p, has
\* returned to the top level, and x is still 1 and h and y are unbound
C1_Witness ==
    /\ \E i \in Exits : /\ trace[i].name = <<"e">>
                        /\ trace[i].how = "Return"
                        /\ trace[i].depth = 1
                        /\ trace[i].val = NumberV(2)
    /\ <<"x">> \in DOMAIN globals
    /\ globals[<<"x">>] = NumberV(1)
    /\ <<"h">> \notin DOMAIN globals
    /\ <<"y">> \notin DOMAIN globals

\* C2: when a user function call fails after its snapshot was taken (in an
\* argument or in the body), the global table is back at the snapshot when
\* the error reaches the caller.
C2_ErrorRestoresGlobals ==
    \A i \in Exits :
        trace[i].how \in {"ArgErr", "BodyErr"} => trace[i].post = trace[i].pre

\* C3: every argument of a user function call is evaluated in the pre-call
\* environment: in a call whose arguments are literals and variables, the
\* parameter of a variable argument receives the value the variable had
\* before the call.
C3_ArgumentsSeePreCallGlobals ==
    \A i \in Exits :
        (\A j \in 1..Len(trace[i].arguments) :
            trace[i].arguments[j].k \in {"Number", "Identifier"})
        => \A j \in 1..Len(trace[i].bound) :
              trace[i].arguments[j].k = "Identifier"
              => trace[i].bound[j] = trace[i].pre[trace[i].arguments[j].name]

\* C4: a Return statement executed in a function body, at any nesting of
\* Block, If and While, is followed by no other statement of the evaluation
\* before its call is left; the call is left with the returned value; and a
\* call is left by Return only through a Return statement of its own body.
C4_ReturnUnwindsToItsCall ==
    /\ \A i \in Returns :
          trace[i].depth >= 1
          => /\ i < Len(trace)
             /\ trace[i + 1].ev = "exit"
             /\ trace[i + 1].depth = trace[i].depth
             /\ trace[i + 1].mod = trace[i].mod
             /\ trace[i + 1].how = "Return"
             /\ trace[i + 1].val = trace[i].val
    /\ \A i \in Exits :
          trace[i].how = "Return"
          => /\ i > 1
             /\ trace[i - 1].ev = "ret"
             /\ trace[i - 1].depth = trace[i].depth
             /\ trace[i - 1].mod = trace[i].mod

\* r(7) returned from inside two nested statements of its body, its caller
\* g went on with its own body and returned 8, and nothing else was printed
C4_Witness ==
    /\ \E i \in Returns : trace[i].depth = 2 /\ trace[i].val = NumberV(7)
    /\ \E i \in Exits : trace[i].depth = 1 /\ trace[i].val = NumberV(8)
    /\ out = << <<"i", "n", "\n">>, <<"a", "f", "t", "e", "r", "\n">>, <<"8", "\n">> >>

TopLevelReturns == {i \in Returns : trace[i].depth = 0}

C5_After ==
    \A i \in TopLevelReturns :
        /\ status = "failed"
        /\ diag = IF trace[i].mod = 0
                  THEN <<"Return statement not allowed outside function">>
                  ELSE <<"Return statement not allowed at module level">>
        /\ \A j \in DOMAIN trace : j > i => trace[j].ev # "stmt"

\* C5: when a top-level statement of a program or of an imported module
\* yields the Return signal, the run fails with the diagnostic for it, no
\* statement is executed after that Return, and the next step of the driver
\* is to read a new line, with globals and output as the failure left them.
C5_TopLevelReturnFails ==
    [][/\ C5_After'
       /\ TopLevelReturns # {}
          => /\ script # << >>
             /\ program' = Head(script)
             /\ pc' = 1
             /\ globals' = globals
             /\ out' = out]_vars

\* a Return nested in a Block and an If at the top level ended the run at
\* the second statement
C5_Witness ==
    /\ \E i \in TopLevelReturns : trace[i].mod = 0
    /\ \E j \in DOMAIN trace : trace[j].ev = "stmt" /\ trace[j].kind = "If"
    /\ status = "failed"
    /\ pc = 2
    /\ Len(program) = 3

\* r, the result of the next top-level statement, is an error: interpret
\* returns it and stays at that statement
FailureReturned(r) ==
    (~r.ok /\ ~r.m.oob) => status' = "failed" /\ diag' = r.err /\ pc' = pc

\* C6: when the k-th top-level statement fails, interpret returns its
\* diagnostic and stops at k; after a failure the only step is reading a new
\* line, which leaves globals, stdout and stderr as they were.
C6_FailFast ==
    [][/\ (status = "running" /\ pc <= Len(program))
          => FailureReturned(ExecStmt(Machine(globals, out, errout, stdin), program[pc], 0))
       /\ status = "failed"
          => /\ script # << >>
             /\ program' = Head(script)
             /\ pc' = 1
             /\ globals' = globals
             /\ out' = out
             /\ errout' = errout]_vars

\* the second of four statements failed in x + nil, and statements 3 and 4
\* did not run: nothing was printed and x is still 1
C6_Witness ==
    /\ status = "failed"
    /\ diag[1] = "Invalid operands for addition"
    /\ pc = 2
    /\ Len(program) = 4
    /\ out = << >>
    /\ globals[<<"x">>] = NumberV(1)

Mutating == {"push", "pop", "clear", "insert", "remove", "reverse", "set"}

Done == {k \in 1..Len(program) : k < pc}

\* C8, as claimed: for every DynamicArray a and every value v,
\* a.push(v).pop() == v is true and a.push(v).length() is a.length() + 1.
C8_PushPopAnyValue ==
    /\ \A k \in Done : program[k] = PushPop => globals[<<"r">>] = True
    /\ \A k \in Done : program[k] = PushLength => globals[<<"n">>] = True

\* the values on which is_equal is reflexive: Number, String, Boolean, Nil,
\* and arrays of such values
RECURSIVE ReflexiveKind(_)
ReflexiveKind(v) ==
    \/ v.t \in {"Number", "String", "Boolean", "Nil"}
    \/ v.t \in Arrays /\ \A i \in 1..Len(v.a) : ReflexiveKind(v.a[i])

\* C8, amended: for every DynamicArray a, a.push(v).pop() == v is true for
\* every v that is a Number, String, Boolean, Nil or an array of such values,
\* and a.push(v).length() is a.length() + 1 for every value v.
C8_PushPop ==
    /\ \A k \in Done :
          (program[k] = PushPop /\ ReflexiveKind(globals[<<"v">>]))
          => globals[<<"r">>] = True
    /\ \A k \in Done : program[k] = PushLength => globals[<<"n">>] = True
    /\ (pc <= Len(program) /\ program[pc] \in {PushPop, PushLength}) => status # "failed"

\* both statements ran for a = {1, "a"} and v = [1, 2]
C8_Witness ==
    /\ \E k \in Done : program[k] = PushLength
    /\ globals[<<"a">>] = DynamicArrayV(<<NumberV(1), StringV(<<"a">>)>>)
    /\ globals[<<"v">>] = FixedArrayV(<<NumberV(1), NumberV(2)>>)
    /\ globals[<<"r">>] = True
    /\ globals[<<"n">>] = True

\* C9: push, pop, clear, insert and remove fail on every receiver that is not
\* a DynamicArray; length and reverse succeed on both array flavors, length
\* with the number of elements and reverse with the reversed array of the
\* receiver's flavor.
C9_OnlyDynamicArraysChangeLength ==
    \A i \in MethodCalls :
        /\ (trace[i].method \in {"push", "pop", "clear", "insert", "remove"}
            /\ trace[i].recv.t # "DynamicArray")
           => ~trace[i].ok
        /\ (trace[i].method = "length" /\ trace[i].recv.t \in Arrays
            /\ trace[i].argument = ExprNil)
           => trace[i].ok /\ trace[i].val = NumberV(Len(trace[i].recv.a))
        /\ (trace[i].method = "reverse" /\ trace[i].recv.t \in Arrays
            /\ trace[i].argument = ExprNil)
           => /\ trace[i].ok
              /\ trace[i].val.t = trace[i].recv.t
              /\ trace[i].val.a = Reversed(trace[i].recv.a)

\* clear() on the FixedArray [1, 2] failed
C9_Witness ==
    /\ status = "failed"
    /\ \E i \in MethodCalls : /\ trace[i].method = "clear"
                              /\ trace[i].recv = FixedArrayV(<<NumberV(1), NumberV(2)>>)
                              /\ ~trace[i].ok

\* C10: pop() on an empty DynamicArray fails; on a DynamicArray of n >= 1
\* elements it returns the element at index n-1, not the shortened array.
C10_PopReturnsLast ==
    \A i \in MethodCalls :
        (trace[i].method = "pop" /\ trace[i].recv.t = "DynamicArray"
         /\ trace[i].argument = ExprNil)
        => IF trace[i].recv.a = << >>
           THEN ~trace[i].ok /\ trace[i].err = <<"Cannot pop from empty array">>
           ELSE trace[i].ok /\ trace[i].val = trace[i].recv.a[Len(trace[i].recv.a)]

\* pop() on {1, "a"} returned "a"
C10_Witness ==
    \E i \in MethodCalls : /\ trace[i].method = "pop"
                           /\ trace[i].recv = DynamicArrayV(<<NumberV(1), StringV(<<"a">>)>>)
                           /\ trace[i].ok
                           /\ trace[i].val = StringV(<<"a">>)
                           /\ globals[<<"r">>] = StringV(<<"a">>)

Indexings == {i \in DOMAIN trace : trace[i].ev = "index"}

\* C11: indexing an array of either flavor with length n fails with an
\* out-of-bounds error when the index is n or larger, and yields the element
\* at position i for every index i with 0 <= i <= n-1; it fails when the
\* index is not a Number or the receiver is not an array.
C11_IndexInBounds ==
    \A i \in Indexings :
        /\ (trace[i].index.t = "Number" /\ trace[i].array.t \in Arrays
            /\ trace[i].index.n >= Len(trace[i].array.a))
           => /\ ~trace[i].ok
              /\ trace[i].err = <<"Array index out of bounds", trace[i].index.n,
                                  Len(trace[i].array.a)>>
              /\ status = "failed"
        /\ (trace[i].index.t = "Number" /\ trace[i].array.t \in Arrays
            /\ 0 <= trace[i].index.n /\ trace[i].index.n < Len(trace[i].array.a))
           => trace[i].ok /\ trace[i].val = trace[i].array.a[trace[i].index.n + 1]
        /\ (trace[i].index.t # "Number" \/ trace[i].array.t \notin Arrays)
           => ~trace[i].ok /\ status = "failed"

\* [7, "a", nil][3] failed with the out-of-bounds error
C11_Witness ==
    /\ status = "failed"
    /\ diag = <<"Array index out of bounds", 3, 3>>
    /\ \E i \in Indexings :
          /\ trace[i].array = FixedArrayV(<<NumberV(7), StringV(<<"a">>), NilV>>)
          /\ trace[i].index = NumberV(3)
          /\ ~trace[i].ok

\* the value of expression e under the globals g
ValueOf(g, e) == EvalExpr(Machine(g, << >>, << >>, << >>), e, 0)

\* the method call c was insert(index, value) with an index inside 0..n: it
\* returned the receiver with value at that index
InsertedAt(c, index, value) ==
    (/\ index.ok /\ index.val.t = "Number"
     /\ 0 <= index.val.n /\ index.val.n <= Len(c.recv.a)
     /\ value.ok)
    => c.ok /\ c.val = DynamicArrayV(InsertAt(c.recv.a, index.val.n, value.val))

\* C12: for a DynamicArray a of length n and any first-argument expression
\* (literal, variable or computed) that evaluates to a Number i with
\* 0 <= i <= n, a.insert(i, v) returns a DynamicArray of length n+1 that has v
\* at index i and the elements of a in their original order around it.
C12_InsertAtAnyIndexExpression ==
    \A i \in MethodCalls :
        (trace[i].method = "insert" /\ trace[i].recv.t = "DynamicArray"
         /\ trace[i].argument.k = "Binary")
        => InsertedAt(trace[i], ValueOf(trace[i].pre, trace[i].argument.left),
                      ValueOf(trace[i].pre, trace[i].argument.right))

\* the method call c was remove(index): it returned the element at that
\* index, or failed when the index is the length or more
RemovedAt(c, index) ==
    (index.ok /\ index.val.t = "Number" /\ 0 <= index.val.n)
    => IF index.val.n < Len(c.recv.a)
       THEN c.ok /\ c.val = c.recv.a[index.val.n + 1]
       ELSE ~c.ok /\ c.err = <<"Remove index out of bounds", index.val.n, Len(c.recv.a)>>

\* C13: for a DynamicArray a of length n and any argument expression
\* (literal, variable or computed) that evaluates to a Number i, a.remove(i)
\* returns the element of a at index i when 0 <= i < n and fails with an
\* out-of-bounds error when i >= n.
C13_RemoveAtAnyIndexExpression ==
    \A i \in MethodCalls :
        (trace[i].method = "remove" /\ trace[i].recv.t = "DynamicArray")
        => RemovedAt(trace[i], ValueOf(trace[i].pre, trace[i].argument))

False == BooleanV(FALSE)
Ran(stmt) == \E n \in Done : program[n] = stmt

\* C14: for any Object o, string key k and value v, o.set(k, v).get(k) is v
\* and o.set(k, v).has(k) is true; for every key j other than k, get(j) and
\* has(j) give the same on o.set(k, v) as on o; get of an absent key is Nil
\* and has of an absent key is false; Object() has no keys.
C14_ObjectSetGetHas ==
    /\ Ran(SetGet) => globals[<<"g">>] = globals[<<"v">>]
    /\ Ran(SetHas) => globals[<<"h">>] = True
    /\ (Ran(GetOther) /\ globals[<<"j">>] # globals[<<"k">>])
       => globals[<<"p">>] = globals[<<"q">>]
    /\ (Ran(HasOther) /\ globals[<<"j">>] # globals[<<"k">>])
       => globals[<<"s">>] = globals[<<"t">>]
    /\ (Ran(GetOther) /\ globals[<<"j">>].s \notin DOMAIN globals[<<"o">>].o)
       => globals[<<"q">>] = NilV
    /\ (Ran(HasOther) /\ globals[<<"j">>].s \notin DOMAIN globals[<<"o">>].o)
       => globals[<<"t">>] = False
    /\ Ran(HasOther) => (globals[<<"t">>] = True
                         <=> globals[<<"j">>].s \in DOMAIN globals[<<"o">>].o)
    /\ Ran(NewObject) => DOMAIN globals[<<"e">>].o = {}
    /\ Ran(NewKeys) => globals[<<"n">>] = DynamicArrayV(<< >>)
    /\ (pc <= Len(program) /\ program[pc] \in ObjectStmts) => status # "failed"

\* o holds k and j, o.set("", {1}) was looked at: get("") gave {1}, and
\* get("j") gave "k" with and without the set
C14_Witness ==
    /\ Ran(NewKeys)
    /\ DOMAIN globals[<<"o">>].o = {<<"k">>, <<"j">>}
    /\ globals[<<"k">>] = StringV(<< >>)
    /\ globals[<<"j">>] = StringV(<<"j">>)
    /\ globals[<<"g">>] = DynamicArrayV(<<NumberV(1)>>)
    /\ globals[<<"h">>] = True
    /\ globals[<<"p">>] = StringV(<<"k">>)
    /\ globals[<<"q">>] = StringV(<<"k">>)
    /\ globals[<<"s">>] = True

Scalars == {"String", "Number", "Boolean"}
ReplaceCalls ==
    {i \in MethodCalls : trace[i].method = "replaceChar" /\ trace[i].argument.k = "Transform"}

\* a transform side under the globals g: the value of the variable of that
\* name as text, or the text itself when no variable has that name
Resolved(g, text) == IF text \in DOMAIN g THEN Display(g[text]) ELSE text

\* the receiver of c with every occurrence of from replaced by to
Replaced(c, from, to) ==
    /\ c.ok
    /\ c.val = StringV(ReplaceText(c.recv.s, from, to))
    /\ (Len(from) = 1 /\ Len(to) = 1)
       => c.val.s = [n \in 1..Len(c.recv.s) |->
                        IF c.recv.s[n] = from[1] THEN to[1] ELSE c.recv.s[n]]

\* C16, as claimed: on a String receiver each side of the transform is
\* resolved on its own, to the value of the bound global of that name or else
\* to the literal text, and the result is the receiver with every occurrence
\* of the resolved from replaced by the resolved to; on a receiver that is not
\* a String the call fails.
C16_ReplaceCharAnyBinding ==
    \A i \in ReplaceCalls :
        IF trace[i].recv.t = "String"
        THEN Replaced(trace[i], Resolved(trace[i].pre, trace[i].argument.from),
                      Resolved(trace[i].pre, trace[i].argument.to))
        ELSE ~trace[i].ok

\* is the side a literal, or a variable that holds a String, Number or Boolean
Usable(g, text) == text \in DOMAIN g => g[text].t \in Scalars

\* C16, amended: a side that names a global bound to a String, Number or
\* Boolean resolves to that value as text, an unbound side to its literal
\* text, and the result is the receiver with every occurrence of the resolved
\* from replaced by the resolved to; the call fails when a side names a global
\* bound to a value of another kind, and when the receiver is not a String.
C16_ReplaceChar ==
    \A i \in ReplaceCalls :
        IF /\ trace[i].recv.t = "String"
           /\ Usable(trace[i].pre, trace[i].argument.from)
           /\ Usable(trace[i].pre, trace[i].argument.to)
        THEN Replaced(trace[i], Resolved(trace[i].pre, trace[i].argument.from),
                      Resolved(trace[i].pre, trace[i].argument.to))
        ELSE ~trace[i].ok /\ status = "failed"

\* with a bound to 1 and b unbound, "a1ba".replaceChar(`a -> b`) gave "abba"
C16_Witness ==
    /\ {<<"a">>, <<"r">>} \subseteq DOMAIN globals
    /\ globals[<<"a">>] = NumberV(1)
    /\ globals[<<"r">>] = StringV(<<"a", "b", "b", "a">>)
    /\ \E i \in ReplaceCalls :
          /\ trace[i].recv = StringV(<<"a", "1", "b", "a">>)
          /\ trace[i].argument = ExprTransform(<<"a">>, <<"b">>)
          /\ trace[i].ok

Operations == {i \in DOMAIN trace : trace[i].ev = "binary"}
Additions == {i \in Operations : trace[i].operator = "Add"}

\* C17: Number + Number is numeric addition; a String with a String, Number
\* or Boolean on either side gives the two operands as text, left then right;
\* every other pairing of kinds fails.
C17_Addition ==
    \A i \in Additions :
        CASE trace[i].left.t = "Number" /\ trace[i].right.t = "Number" ->
                trace[i].ok /\ trace[i].val = NumberV(trace[i].left.n + trace[i].right.n)
          [] \/ trace[i].left.t = "String" /\ trace[i].right.t \in Scalars
             \/ trace[i].right.t = "String" /\ trace[i].left.t \in Scalars ->
                /\ trace[i].ok
                /\ trace[i].val = StringV(Display(trace[i].left) \o Display(trace[i].right))
          [] OTHER -> ~trace[i].ok /\ status = "failed"

\* let s = "hi" + 6; print s;  printed hi6
C17_Witness ==
    /\ out = <<<<"h", "i", "6", "\n">>>>
    /\ <<"s">> \in DOMAIN globals
    /\ globals[<<"s">>] = StringV(<<"h", "i", "6">>)

Arithmetic == {"Add", "Subtract", "Multiply", "Divide"}
Relational == {"Greater", "GreaterEqual", "Less", "LessEqual"}

\* C18: every failure of an arithmetic or relational Binary operation, an
\* operand type mismatch or a division by a zero divisor, produces a
\* diagnostic that contains the line and column carried on the Binary node.
C18_FailuresCarryPosition ==
    \A i \in Operations :
        (trace[i].operator \in Arithmetic \cup Relational /\ ~trace[i].ok)
        => /\ Len(trace[i].err) = 5
           /\ trace[i].err[4] = trace[i].line
           /\ trace[i].err[5] = trace[i].column

\* the comparisons of x, y and z have all been made
Compared == Ran(EqualityStmts[Len(EqualityStmts)])
G(c) == globals[<<c>>]

\* symmetry, transitivity within a kind, falsity across kinds, != as negation
EqualityLaws ==
    /\ G("q") = G("r")
    /\ (G("x").t = G("y").t /\ G("y").t = G("z").t /\ G("q") = True /\ G("s") = True)
       => G("t") = True
    /\ G("x").t # G("y").t => G("q") = False
    /\ G("u") = BooleanV(G("q") # True)
    /\ G("v") = BooleanV(G("p") # True)
    /\ {G("p"), G("q"), G("r"), G("s"), G("t")} \subseteq {True, False}

\* C19, as claimed: equality is reflexive for Number, String, Boolean, Nil,
\* FixedArray and DynamicArray values, symmetric for every pair of values,
\* transitive among values of one kind, and false for values of distinct
\* kinds, a FixedArray against a DynamicArray included; != is the negation
\* of ==.
C19_EqualityReflexiveOnArrays ==
    Compared
    => /\ G("x").t \in {"Number", "String", "Boolean", "Nil"} \cup Arrays => G("p") = True
       /\ EqualityLaws

\* C19, amended: equality is reflexive for Number, String, Boolean and Nil
\* values and for arrays built of such values only; an array that holds an
\* Object or a Function is not equal to itself; the other laws as claimed.
C19_Equality ==
    /\ Compared
       => /\ G("p") = BooleanV(ReflexiveKind(G("x")))
          /\ EqualityLaws
    /\ (pc <= Len(program) /\ \E n \in DOMAIN EqualityStmts : program[pc] = EqualityStmts[n])
       => status # "failed"

\* [1] against {1} and {1}: [1] == [1] and {1} == {1} are true, [1] == {1}
\* and {1} == [1] are false, [1] != {1} is true
C19_Witness ==
    /\ Compared
    /\ G("x") = FixedArrayV(<<NumberV(1)>>)
    /\ G("y") = DynamicArrayV(<<NumberV(1)>>)
    /\ G("z") = DynamicArrayV(<<NumberV(1)>>)
    /\ G("p") = True /\ G("s") = True
    /\ G("q") = False /\ G("r") = False /\ G("t") = False
    /\ G("u") = True

Placeholder == <<"{", "}">>
\* the position of the first {} in s, 0 when there is none
FirstPlaceholder(s) ==
    IF \E i \in 1..Len(s) - 1 : SubSeq(s, i, i + 1) = Placeholder
    THEN CHOOSE i \in 1..Len(s) - 1 :
            /\ SubSeq(s, i, i + 1) = Placeholder
            /\ \A j \in 1..i - 1 : SubSeq(s, j, j + 1) # Placeholder
    ELSE 0
\* the pieces of s between its placeholders, taken left to right
RECURSIVE Pieces(_)
Pieces(s) ==
    IF FirstPlaceholder(s) = 0 THEN <<s>>
    ELSE <<SubSeq(s, 1, FirstPlaceholder(s) - 1)>>
         \o Pieces(SubSeq(s, FirstPlaceholder(s) + 2, Len(s)))
\* the pieces from the i-th on, each after the argument of the placeholder
\* before it, or after a literal {} when the arguments have run out
RECURSIVE FilledFrom(_, _, _)
FilledFrom(pieces, texts, i) ==
    IF i > Len(pieces) THEN << >>
    ELSE (IF i - 1 <= Len(texts) THEN texts[i - 1] ELSE Placeholder)
         \o pieces[i] \o FilledFrom(pieces, texts, i + 1)
Filled(format, texts) == Pieces(format)[1] \o FilledFrom(Pieces(format), texts, 2)

PrintStmts == {PrintWith(n) : n \in 1..3}
\* the arguments of print f, ... with n arguments, as text
Texts(n) == [i \in 1..n |-> Display(globals[PrintArgs[i].name])]

\* C20: print with extra arguments requires a String format and replaces the
\* occurrences of {} in the format, left to right, by the arguments as text in
\* order; placeholders beyond the arguments are printed literally, arguments
\* beyond the placeholders are ignored, and the text of an argument is never
\* scanned for placeholders.
C20_PrintFormat ==
    /\ \A n \in 1..3 :
          Ran(PrintWith(n))
          => /\ G("f").t = "String"
             /\ out = <<Filled(G("f").s, Texts(n)) \o <<"\n">>>>
    /\ (pc <= Len(program) /\ program[pc] \in PrintStmts /\ G("f").t = "String")
       => status # "failed"
    /\ (pc <= Len(program) /\ program[pc] \in PrintStmts /\ status = "failed")
       => diag = <<"Format string must be a string">> /\ out = << >>

\* print "{}{}{}{}", "{}", "}", "{}";  printed {}}{}{}
C20_Witness ==
    /\ Ran(PrintWith(3))
    /\ G("f") = StringV(<<"{", "}", "{", "}", "{", "}", "{", "}">>)
    /\ G("a") = StringV(<<"{", "}">>)
    /\ G("b") = StringV(<<"}">>)
    /\ out = <<<<"{", "}", "}", "{", "}", "{", "}", "\n">>>>

\* C15: the program  let s = "a,b,c"; print s.replaceChar(`, -> ;`);  is
\* tokenized, parsed and run without error, and prints a;b;c
C15_ReplaceCharPunctuation ==
    source = PunctuationSource =>
        /\ status \notin {"failed", "panicked"}
        /\ status = "idle" => out = <<<<"a", ";", "b", ";", "c", "\n">>>>

\* the imports of the trace whose module was found, read, parsed and run
Imports == {i \in DOMAIN trace : trace[i].ev = "import" /\ trace[i].ran}
Exportable(name) == name # << >> /\ IsUpperChar(name[1])
\* the name can be imported from the module of the import ev
Importable(ev, name) == Exportable(name) /\ name \in DOMAIN ev.module
\* the name is bound after the import as it was before it
Untouched(ev, name) ==
    /\ name \in DOMAIN ev.post <=> name \in DOMAIN ev.pre
    /\ name \in DOMAIN ev.pre => ev.post[name] = ev.pre[name]
\* the name at position j is reached: every name before it was imported
Reached(ev, j) == \A h \in 1..j - 1 : Importable(ev, ev.names[h])

\* C21: an import succeeds only if every name begins with an uppercase letter
\* and is defined by the module.  A name that is reached and begins with a
\* lowercase letter or an underscore makes the import fail with the
\* diagnostic of the export rule when the module defines it, and is bound
\* afterwards as it was before; a reached uppercase name the module defines is
\* bound to the module's value; a reached name the module does not define
\* makes the import fail with the diagnostic of a missing name
C21_UppercaseNamesCross ==
    \A i \in Imports :
        /\ trace[i].ok <=> \A j \in DOMAIN trace[i].names :
                               Importable(trace[i], trace[i].names[j])
        /\ \A j \in DOMAIN trace[i].names :
              Reached(trace[i], j) =>
                /\ ~Exportable(trace[i].names[j]) =>
                      /\ ~trace[i].ok
                      /\ trace[i].err # << >>
                      /\ Untouched(trace[i], trace[i].names[j])
                /\ Importable(trace[i], trace[i].names[j]) =>
                      /\ trace[i].names[j] \in DOMAIN trace[i].post
                      /\ trace[i].post[trace[i].names[j]]
                            = trace[i].module[trace[i].names[j]]
                      /\ trace[i].mod = 0 /\ i = Len(trace) => globals = trace[i].post
                /\ trace[i].names[j] \notin DOMAIN trace[i].module =>
                      ~trace[i].ok /\ trace[i].err # << >>

\* an import of the lowercase name secret, which math.pg defines and the
\* importer has bound to 0, failed after the uppercase name Pi was bound to
\* the module's 3
C21_Witness ==
    /\ Imports # {}
    /\ \E i \in Imports :
          /\ trace[i].names = <<NamePi, NameSecret>>
          /\ trace[i].pre = (NamePi :> NumberV(0)) @@ (NameSecret :> NumberV(0))
          /\ ~trace[i].ok
          /\ status = "failed"
          /\ globals = (NamePi :> NumberV(3)) @@ (NameSecret :> NumberV(0))

\* the names of the import ev before position j
Before(ev, j) == {ev.names[h] : h \in 1..j - 1}
\* the position of the first name of ev that cannot be imported
FirstFailure(ev) ==
    CHOOSE j \in DOMAIN ev.names : ~Importable(ev, ev.names[j]) /\ Reached(ev, j)

\* C28: when the import of N1..Nk fails on Nj, the caller's globals after it
\* are the globals before it with N1..Nj-1 bound to the module's values, and
\* nothing else changed: Nj..Nk are bound as before, unless they are among
\* N1..Nj-1
C28_FailedImportKeepsCopies ==
    \A i \in Imports :
        ~trace[i].ok =>
            /\ DOMAIN trace[i].post
                  = DOMAIN trace[i].pre \cup Before(trace[i], FirstFailure(trace[i]))
            /\ \A name \in DOMAIN trace[i].post :
                  trace[i].post[name]
                    = IF name \in Before(trace[i], FirstFailure(trace[i]))
                      THEN trace[i].module[name] ELSE trace[i].pre[name]
            /\ trace[i].mod = 0 /\ i = Len(trace) =>
                  status = "failed" /\ globals = trace[i].post

\* get {Pi, Nope, Twice} from math; failed on Nope: Pi is bound to 3, Twice
\* is not bound
C28_Witness ==
    /\ Imports # {}
    /\ \E i \in Imports :
          /\ trace[i].names = <<NamePi, NameNope, NameTwice>>
          /\ trace[i].pre = (Txt1("x") :> NumberV(1))
          /\ ~trace[i].ok
          /\ FirstFailure(trace[i]) = 2
          /\ status = "failed"
          /\ globals = (Txt1("x") :> NumberV(1)) @@ (NamePi :> NumberV(3))

\* the names the statements of the program declare themselves
OwnNames == {program[i].name : i \in {j \in DOMAIN program :
                                        program[j].k \in {"VarDeclaration",
                                                          "FunctionDeclaration"}}}
\* the program ends with  get {..} from helper; print F(3);  the import has
\* bound F and the print has run
CalledImported(F) ==
    /\ Len(program) >= 2
    /\ program[Len(program) - 1].k = "Import"
    /\ program[Len(program) - 1].module = <<"h", "e", "l", "p", "e", "r">>
    /\ \E j \in DOMAIN program[Len(program) - 1].names :
          program[Len(program) - 1].names[j] = F
    /\ program[Len(program)] = Show(ExprFunctionCall(F, <<Num(3)>>))
    /\ \/ pc = Len(program) + 1
       \/ pc = Len(program) /\ status = "failed"
Printed(text) == out # << >> /\ out[Len(out)] = text \o <<"\n">>

\* C29: Rated reads the module's variable rate and Double calls the module's
\* function scale, neither of which can be imported.  Called in the importer,
\* Rated(3) fails with the undefined variable rate unless the importer has
\* declared rate itself, and then the importer's rate (5) is used; Double(3)
\* fails with the undefined function scale unless the importer has declared
\* scale itself, and then the importer's scale (n + 1) is called
C29_ImportedFunctionHasNoModuleEnvironment ==
    /\ CalledImported(NameRated) =>
          IF NameRate \in OwnNames
          THEN status # "failed" /\ Printed(<<"1", "5">>)
          ELSE status = "failed" /\ diag = <<"Undefined variable", NameRate>>
    /\ CalledImported(NameDouble) =>
          IF NameScale \in OwnNames
          THEN status # "failed" /\ Printed(<<"4">>)
          ELSE status = "failed" /\ diag = <<"Undefined function", NameScale>>

\* Rated was imported into a program that binds nothing called rate, and the
\* call Rated(3) failed on rate
C29_Witness ==
    /\ CalledImported(NameRated)
    /\ NameRate \notin OwnNames
    /\ NameRated \in DOMAIN globals
    /\ globals[NameRated] = FunctionV(<<Txt1("n")>>, HelperModule.statements[5].body)
    /\ status = "failed"
    /\ diag = <<"Undefined variable", NameRate>>

\* the globals after the statement around the inner statements: everything
\* the inner statements declared or assigned, with the values stored last
ScopeGlobals(w, u, t) ==
    IF w = "bare" THEN (Txt1("a") :> NumberV(0)) @@ (Txt1("b") :> NumberV(u))
    ELSE (Txt1("a") :> NumberV(t)) @@ (Txt1("b") :> NumberV(u)) @@ (Txt1("c") :> NumberV(t))

\* C26: after a Block, an If branch or a While body has run at top level,
\* what its statements declared (b) or assigned (a, and c, which was never
\* declared) is bound in the globals with the value stored last, and stays
\* so: the statements after it read these values
C26_BlocksShareTheGlobals ==
    Len(program) = 4 =>
    \A w \in Wrappers : \A u, t \in 1..MaxScopeValue :
        program = ScopeProgram(w, u, t) =>
            /\ status # "failed"
            /\ pc >= 3 => globals = ScopeGlobals(w, u, t)
            /\ pc = 5 => out = <<Display(ScopeGlobals(w, u, t)[Txt1("a")]) \o <<"\n">>,
                                  Display(NumberV(u)) \o <<"\n">>>>

\* the body of  while (a != 2) { let b = 1; a = 2; c = 2; }  has run and the
\* two prints after it have printed 2 and 1
C26_Witness ==
    /\ program = ScopeProgram("while", 1, 2)
    /\ status = "idle"
    /\ globals = (Txt1("a") :> NumberV(2)) @@ (Txt1("b") :> NumberV(1))
                    @@ (Txt1("c") :> NumberV(2))
    /\ out = <<<<"2", "\n">>, <<"1", "\n">>>>

\* the files that the top-level statements of the module file f import
ImportedBy(f) ==
    {ModuleFile(Files[f].statements[i].module) :
        i \in {j \in DOMAIN Files[f].statements : Files[f].statements[j].k = "Import"}}
    \cap DOMAIN Files
\* the files loaded by the files of F, directly or through at most n modules
RECURSIVE Reach(_, _)
Reach(F, n) ==
    IF n = 0 THEN {}
    ELSE UNION {ImportedBy(f) : f \in F} \cup Reach(UNION {ImportedBy(f) : f \in F}, n - 1)
\* the top-level statements of f import f, directly or through other modules
Cyclic(f) == f \in Reach({f}, Cardinality(DOMAIN Files))

\* C30: a load of a module whose top-level statements import that same
\* module, directly or through other modules, never ends: in every step it
\* stays in progress before its name-copy step, a load entered above it
\* starts with a fresh module interpreter at the module's first statement,
\* and the program that asked for the import stays at the import, without a
\* result and with its globals as they were
C30_CyclicImportNeverReturns ==
    [][\A i \in DOMAIN loads :
          Cyclic(loads[i].file) =>
              /\ i \in DOMAIN loads'
              /\ loads'[i].file = loads[i].file
              /\ loads'[i].pc <= Len(Files[loads[i].file].statements)
              /\ Len(loads') > Len(loads) =>
                    loads'[Len(loads')].globals = << >> /\ loads'[Len(loads')].pc = 1
              /\ status' = "running"
              /\ pc' = pc
              /\ globals' = globals]_vars

\* get {Q} from ping;  has entered ping.pg, which entered pong.pg, which
\* entered ping.pg again with a fresh interpreter that ran let P = 1 again and
\* is at its import of pong; the first load of ping.pg is still at its
\* import, and so is the program
C30_Witness ==
    /\ Len(loads) >= 3
    /\ loads[1].file = NamePing \o DotPg
    /\ loads[2].file = NamePong \o DotPg
    /\ loads[3].file = NamePing \o DotPg
    /\ loads[1].pc = 2
    /\ loads[3].pc = 2
    /\ loads[3].globals = (Txt1("P") :> NumberV(1))
    /\ status = "running"
    /\ program[pc] = Get(<<Txt1("Q")>>, NamePing)
    /\ globals = (Txt1("x") :> NumberV(1))

\* the last and only the last token is Eof
EofLastOnly(tokens) ==
    /\ tokens # << >>
    /\ \A i \in DOMAIN tokens : tokens[i].token = Eof <=> i = Len(tokens)

\* C22: tokenize returns either the tokens or a diagnostic: for a source the
\* lexer rejects (an unterminated string, an unexpected character) the driver
\* receives a diagnostic with the line and the column, reports it and goes on
\* with the next line; for every other source it receives a token list in
\* which the last and only the last token is Eof
C22_TokenizeReturnsTokensOrDiagnostic ==
    source # << >> =>
        IF tokenize(source).ok
        THEN EofLastOnly(tokenize(source).tokens)
        ELSE /\ status = "failed"
             /\ diag = tokenize(source).panic
             /\ Len(diag) >= 3
             /\ diag[Len(diag) - 1] \in Nat \ {0}
             /\ diag[Len(diag)] \in Nat \ {0}

\* the line of the character at position q (from 1) of a source
LineOf(text, q) == 1 + Cardinality({i \in 1..q - 1 : text[i] = "\n"})
\* the character at q is a quote where the lexer starts a token, and the
\* string it opens is not closed before the end of the source
OpensUnterminated(text, q) ==
    /\ text[q] = "\""
    /\ tokenize(SubSeq(text, 1, q - 1)).ok
    /\ lexer_is_at_end(scan_string([Lexer(text) EXCEPT !.position = q - 1]).lx)

\* C23: an unterminated string is reported at the line of its opening quote,
\* also when line ends follow the opening quote
C23_UnterminatedStringAtOpeningLine ==
    (source # << >> /\ status \in {"failed", "panicked"} /\ diag # << >>
        /\ diag[1] = "Unterminated string") =>
        \A q \in DOMAIN source :
            OpensUnterminated(source, q) => diag[2] = LineOf(source, q)

\* parse returned a program or a diagnostic
ProgramOrDiagnostic(parsed) == parsed.ok \/ (parsed.err # << >> /\ parsed.err # StackOverflow)

\* C24: parse terminates on every token list that ends with Eof and returns
\* a program or a diagnostic; a token list that ends right after an opening
\* parenthesis or bracket gives a diagnostic, and the empty source gives the
\* empty program
C24_ParseTerminates ==
    /\ status # "overflowed"
    /\ tokenize(source).ok =>
          /\ ProgramOrDiagnostic(parse(tokenize(source).tokens))
          /\ source = << >> => parse(tokenize(source).tokens) = Parsed(Parser(<<TokenInfo(Eof, 1, 1)>>), << >>)

\* the Binary nodes of an expression or a statement
RECURSIVE BinaryNodes(_)
BinaryNodesOf(nodes) == UNION {BinaryNodes(nodes[i]) : i \in DOMAIN nodes}
BinaryNodes(n) ==
    CASE n.k = "Binary" -> {n} \cup BinaryNodes(n.left) \cup BinaryNodes(n.right)
      [] n.k \in Arrays -> BinaryNodesOf(n.elements)
      [] n.k = "Index" -> BinaryNodes(n.array) \cup BinaryNodes(n.index)
      [] n.k = "Unary" -> BinaryNodes(n.operand)
      [] n.k = "Assignment" -> BinaryNodes(n.value)
      [] n.k = "MethodCall" -> BinaryNodes(n.object) \cup BinaryNodes(n.argument)
      [] n.k = "FunctionCall" -> BinaryNodesOf(n.arguments)
      [] n.k \in {"Expression", "Return"} -> BinaryNodes(n.expr)
      [] n.k = "Print" -> BinaryNodes(n.format) \cup BinaryNodesOf(n.arguments)
      [] n.k = "VarDeclaration" -> BinaryNodesOf(n.initializer)
      [] n.k = "FunctionDeclaration" -> BinaryNodes(n.body)
      [] n.k = "Block" -> BinaryNodesOf(n.statements)
      [] n.k = "If" -> BinaryNodes(n.condition) \cup BinaryNodes(n.then_branch)
                         \cup BinaryNodesOf(n.else_branch)
      [] n.k = "While" -> BinaryNodes(n.condition) \cup BinaryNodes(n.body)
      [] OTHER -> {}

\* C27: every Binary node of a program returned by parse carries the line
\* and the column of a token of the source, so its line and its column are
\* at least 1; this includes the Binary nodes the parser builds for the
\* arguments of a method
C27_BinaryNodesCarryPosition ==
    (source # << >> /\ program = parse(tokenize(source).tokens).node) =>
        \A b \in BinaryNodesOf(program) :
            /\ b.line >= 1
            /\ b.column >= 1
            /\ \E i \in DOMAIN tokenize(source).tokens :
                    /\ tokenize(source).tokens[i].line = b.line
                    /\ tokenize(source).tokens[i].column = b.column

\* an expression without the positions of its Binary nodes
RECURSIVE Grouping(_)
Grouping(e) ==
    CASE e.k = "Binary" -> ExprBinary(Grouping(e.left), e.operator, Grouping(e.right), 0, 0)
      [] e.k = "Unary" -> ExprUnary(Grouping(e.operand))
      [] e.k = "Assignment" -> ExprAssignment(e.name, Grouping(e.value))
      [] OTHER -> e
Grouped(l, operator, r) == ExprBinary(l, operator, r, 0, 0)
\* the operator a text stands for, and how tightly it binds
OperatorOf(text) ==
    CASE text = <<"+">> -> "Add" [] text = <<"-">> -> "Subtract"
      [] text = <<"*">> -> "Multiply" [] text = <<"/">> -> "Divide"
      [] text = <<"=", "=">> -> "Equal" [] text = <<"!", "=">> -> "NotEqual"
      [] text = <<"<">> -> "Less" [] text = <<"<", "=">> -> "LessEqual"
      [] text = <<">">> -> "Greater" [] text = <<">", "=">> -> "GreaterEqual"
Tightness(operator) ==
    CASE operator \in {"Equal", "NotEqual"} -> 1
      [] operator \in {"Less", "LessEqual", "Greater", "GreaterEqual"} -> 2
      [] operator \in {"Add", "Subtract"} -> 3
      [] operator \in {"Multiply", "Divide"} -> 4
\* the source was parsed into one statement, with this expression
ParsedAs(text, e) ==
    source = text =>
        /\ Len(program) = 1
        /\ Grouping(IF program[1].k = "Print" THEN program[1].format ELSE program[1].expr) = e

\* C25: the parser groups by the order assignment < equality < comparison <
\* term < factor < unary < primary; operators of one level group to the left
\* and assignment groups to the right.  1 + 2 * 3 is 1 + (2 * 3), 8 - 3 - 2
\* is (8 - 3) - 2, a == b < c is a == (b < c), -a * b is (-a) * b, and
\* a = b = 1 is a = (b = 1); an assignment whose left side is no Identifier
\* is a parse error
C25_Precedence ==
    /\ \A first \in OperatorTexts, second \in OperatorTexts :
          ParsedAs(PrecedenceSource(first, second),
                   IF Tightness(OperatorOf(second)) > Tightness(OperatorOf(first))
                   THEN Grouped(Num(1), OperatorOf(first),
                                Grouped(Num(2), OperatorOf(second), Num(3)))
                   ELSE Grouped(Grouped(Num(1), OperatorOf(first), Num(2)),
                                OperatorOf(second), Num(3)))
    /\ \A operator \in OperatorTexts :
          ParsedAs(NegatedSource(operator),
                   Grouped(ExprUnary(Num(1)), OperatorOf(operator), Num(2)))
    /\ ParsedAs(SubtractSource, Grouped(Grouped(Num(8), "Subtract", Num(3)), "Subtract", Num(2)))
    /\ ParsedAs(EqualLessSource, Grouped(Id("a"), "Equal", Grouped(Id("b"), "Less", Id("c"))))
    /\ ParsedAs(MinusTimesSource, Grouped(ExprUnary(Id("a")), "Multiply", Id("b")))
    /\ ParsedAs(AssignTwiceSource,
                ExprAssignment(<<"a">>, ExprAssignment(<<"b">>, Num(1))))
    /\ ParsedAs(AssignEqualSource,
                ExprAssignment(<<"a">>, Grouped(Num(1), "Equal", Num(2))))
    /\ source \in TargetSources =>
          status = "failed" /\ diag = <<"Invalid assignment target.">> /\ program = << >>

\* print 1 + 2 * 3;  was parsed as 1 + (2 * 3), the product at column 13
\* under the sum at column 9, and has printed 7
C25_Witness ==
    /\ source = PrecedenceSource(<<"+">>, <<"*">>)
    /\ program = <<StmtPrint(ExprBinary(Num(1), "Add", ExprBinary(Num(2), "Multiply", Num(3), 1, 13),
                                        1, 9), << >>)>>
    /\ status = "idle"
    /\ out = <<<<"7", "\n">>>>

====
